---- MODULE Spec2Model ----
(***************************************************************************)
(* Debt payoff simulator of the finance site.                              *)
(*                                                                         *)
(* Two implementations are modelled side by side:                          *)
(*   "script"       src/script.js        calculateAvalanche/Snowball/Plan  *)
(*   "calculators"  src/unnamed/part_001 FinancialCalculators.*            *)
(*                                                                         *)
(* Number model.  The code computes in IEEE doubles.  Here every amount is *)
(* an integer number of cents and the monthly interest                     *)
(* (balance * (rate / 100)) / 12 is rounded down to a whole cent; sums and *)
(* differences are exact.  Rates are whole percents.                       *)
(*                                                                         *)
(* Object model.  JavaScript arrays hold references.  heap is the object   *)
(* store (address -> debt object), and the arrays debts, remainingDebts    *)
(* are sequences of addresses, so that copying an array ([...debts]),      *)
(* copying an object ({...debt}) and sharing an object are different       *)
(* things in the model as they are in the code.                            *)
(***************************************************************************)
EXTENDS Integers, Sequences, FiniteSets, TLC

\* ---------------------------------------------------------------- bounds
\* Longest debts list the form submits.
MaxDebts == 2

\* The 50 year cap of the while loop.
MaxMonths == 600

\* Form values (cents, whole percents) the inputs are drawn from.
Balances == {120000, 240000}
Rates == {0, 12}
MinPayments == {2000, 130000}
ExtraPayments == {0, 25000, 1000000}
Impls == {"script", "calculators"}

VARIABLES
    impl,            \* which implementation serves the calls
    debts,           \* the caller's array: sequence of addresses
    heap,            \* address -> debt object [name, balance, rate, minPayment]
    extraPayment,    \* the extraPayment argument
    pc,              \* position of the caller (onDebtSubmit, or a direct call)
    remainingDebts,  \* local of calculatePayoffPlan: sequence of addresses
    totalPaid,
    totalInterest,
    month,
    timeline,        \* sequence of [month, debtName]
    ledger,          \* the locals of the month just simulated, one entry per debt
    extraReached,    \* names of the debts that were rank 0 in a month with extra > 0
    avalanchePlan,   \* onDebtSubmit's local, NoPlan until returned
    snowballPlan,
    alonePlan,       \* what calculateSnowball returned when called before onDebtSubmit
    debts0,          \* the debt objects as submitted (for the frame conditions)
    FinancialDataStore, \* script.js: the in-memory data store
    localStorage,    \* key -> stored value
    dashboard,       \* what the dashboard's metric cards were last computed from
    debtResults,     \* content of the debt results panel
    exportFile,      \* the JSON text of the last export
    storeAtExport,   \* the store as it was when exportFile was written
    lastOp,          \* the last data management operation
    storeOps,        \* number of operations on the data pages so far
    gameState,       \* blackjack: the gameState object (without the deck)
    buttons,         \* blackjack: the disabled property of the four buttons
    timer,           \* blackjack: the pending setTimeout callback of dealerPlay
    balanceBeforeDeal, \* playerBalance when dealCards last started a hand
    dealtValues,     \* the last deal: player value, dealer value, bet
    dealerTrace,     \* the dealer values dealerPlay saw this hand, with its choice
    deals,           \* number of hands dealt so far
    hand,            \* a hand given to calculateHandValue
    handValue,       \* what calculateHandValue returned for it
    memoCache,       \* performance.js: memoCache, the entries <<key, value>> in insertion order
    memoReturn,      \* what the last call of a memoized wrapper returned
    debounceTimers,  \* performance.js: debounceTimers, key -> timer id
    timeouts,        \* the browser's pending setTimeout callbacks
    now,             \* the time, in ticks
    nextTimer,       \* the id the next setTimeout returns
    debounceCalls,   \* calls of debounced wrappers so far
    burst,           \* the current burst of calls of the watched wrapper, and the runs of its function
    income,          \* the income given to calculateFederalTax, in dollars
    federalTax,      \* what calculateFederalTax returned, in cents (-1: not called yet)
    payForm,         \* Annual Income Calculator: the values of the form's fields
    payPage,         \* Annual Income Calculator: error text, results section, last event
    goalsList,       \* the goals displayGoals last rendered
    appliedGoals,    \* the add, edit and delete operations so far, applied in order
    goalClock,       \* Date.now() at the last goal added
    reactionState,   \* ReactionTimeGame: this.gameState
    timeoutId,       \* ReactionTimeGame: this.timeoutId (0: null)
    reactionTimers,  \* the pending setTimeout callbacks of the reaction game
    nextTimeout,     \* the id the next setTimeout of the reaction game returns
    rounds,          \* rounds started with Start Game so far
    changedBy,       \* the round whose click or callback last set this.gameState
    requestQueue,    \* MarketDataService: this.requestQueue, cache key -> request
    marketCache,     \* MarketDataService: this.cache, cache key -> fresh or expired entry
    fetches,         \* the fetchStockDataWithRetry chains started, by request number
    stockCalls,      \* calls of getStockData so far
    lastReturn,      \* what the last call of getStockData returned at once
    planArgs,        \* the arguments both simulators are called with
    legacyRun,       \* script.js calculatePayoffPlan: its locals, month by month
    modularRun       \* FinancialCalculators.calculatePayoffPlan: its locals, month by month

vars == <<impl, debts, heap, extraPayment, pc, remainingDebts, totalPaid,
          totalInterest, month, timeline, ledger, extraReached,
          avalanchePlan, snowballPlan, alonePlan, debts0,
          FinancialDataStore, localStorage, dashboard, debtResults,
          exportFile, storeAtExport, lastOp, storeOps, gameState, buttons,
          timer, balanceBeforeDeal, dealtValues, dealerTrace, deals, hand,
          handValue, memoCache, memoReturn, debounceTimers, timeouts, now,
          nextTimer, debounceCalls, burst, income, federalTax, payForm,
          payPage, goalsList, appliedGoals, goalClock, reactionState,
          timeoutId, reactionTimers, nextTimeout, rounds, changedBy,
          requestQueue, marketCache, fetches, stockCalls, lastReturn,
          planArgs, legacyRun, modularRun>>

\* ---------------------------------------------------------------- helpers
Max(a, b) == IF a >= b THEN a ELSE b
Min(a, b) == IF a <= b THEN a ELSE b

RECURSIVE SumOver(_, _)
\* sum of f[i] for i in 1..n
SumOver(f, n) == IF n = 0 THEN 0 ELSE f[n] + SumOver(f, n - 1)

\* Array.prototype.filter
RECURSIVE Filter(_, _)
Filter(s, keep) ==
    IF s = << >> THEN << >>
    ELSE IF Head(s) \in keep THEN <<Head(s)>> \o Filter(Tail(s), keep)
    ELSE Filter(Tail(s), keep)

NoPlan == [strategy |-> "none"]

\* What one row of the form holds besides its name.
DebtRows == [balance : Balances, rate : Rates, minPayment : MinPayments]

\* The submitted lists (collectDebtData): row i of the form is named i.
DebtLists ==
    UNION { { [i \in 1..n |->
                 [name |-> i, balance |-> r[i].balance, rate |-> r[i].rate,
                  minPayment |-> r[i].minPayment]] : r \in [1..n -> DebtRows] }
            : n \in 0..MaxDebts }

\* ---------------------------------------------------------------- sorting
\* The comparators: (a, b) => b.rate - a.rate and (a, b) => a.balance - b.balance.
avalancheCompareAscending(h, a, b) == h[a].rate - h[b].rate
avalancheCompare(h, a, b) == h[b].rate - h[a].rate

snowballCompareDescending(h, a, b) == h[b].balance - h[a].balance
snowballCompare(h, a, b) == h[a].balance - h[b].balance

Compare(strategy, h, a, b) ==
    IF strategy = "avalanche" THEN avalancheCompare(h, a, b)
    ELSE snowballCompare(h, a, b)

\* x is put before the first element it does not compare greater than, so
\* that elements comparing equal keep their order (the sort is stable).
RECURSIVE InsertSorted(_, _, _, _)
InsertSorted(x, s, strategy, h) ==
    IF s = << >> THEN <<x>>
    ELSE IF Compare(strategy, h, x, Head(s)) <= 0 THEN <<x>> \o s
    ELSE <<Head(s)>> \o InsertSorted(x, Tail(s), strategy, h)

\* Array.prototype.sort(comparator) on an array of addresses.
RECURSIVE StableSort(_, _, _)
StableSort(arr, strategy, h) ==
    IF arr = << >> THEN << >>
    ELSE InsertSorted(Head(arr), StableSort(Tail(arr), strategy, h), strategy, h)

\* [...debts].sort(...) sorts a fresh array: the caller's array keeps its order.
CallerArrayAfterSortInPlace(arr, sorted) == sorted
CallerArrayAfterSort(arr, sorted) == arr

\* sortedDebts.map(debt => ({...debt})): one new object per debt.
CopyDebtsByReference(h, sorted) == [heap |-> h, remainingDebts |-> sorted]
CopyDebts(h, sorted) ==
    [heap |-> h \o [i \in 1..Len(sorted) |-> h[sorted[i]]],
     remainingDebts |-> [i \in 1..Len(sorted) |-> Len(h) + i]]

\* ---------------------------------------------------------------- one month
\* (debt.balance * (debt.rate / 100)) / 12, rounded down to a cent.
MonthlyInterestOfMonthlyRate(balance, rate) == (balance * rate) \div 14400
MonthlyInterest(balance, rate) == (balance * rate) \div 1200

\* calculators: debt.balance = Math.max(0, debt.balance - principalPayment)
ReduceBalanceUnfloored(balance, principalPayment) == balance - principalPayment
ReduceBalance(balance, principalPayment) == Max(0, balance - principalPayment)

\* script: principalPayment = Math.min(debt.payment - interestPayment, debt.balance)
PrincipalPayment(payment, interestPayment, balance) ==
    Min(payment - interestPayment, balance)

\* calculators: the extra goes into the payment of index 0 only.
ExtraForIndexAll(index, extra) == extra
ExtraForIndexNone(index, extra) == 0
ExtraForIndex(index, extra) == IF index = 1 THEN extra ELSE 0

\* The body of remainingDebts.forEach in FinancialCalculators.calculatePayoffPlan
\* for the debt object d at position index (1 is the code's index 0).
CalculatorsEntry(d, index, extra) ==
    LET monthlyInterest == MonthlyInterest(d.balance, d.rate)
        extraPart == ExtraForIndex(index, extra)
        monthlyPayment == d.minPayment + extraPart
        principalPayment == monthlyPayment - monthlyInterest
    IN  [name |-> d.name, start |-> d.balance, minPayment |-> d.minPayment,
         rate |-> d.rate, interest |-> monthlyInterest,
         paid |-> monthlyPayment, extra |-> extraPart,
         balance |-> ReduceBalance(d.balance, principalPayment)]

\* script.js: the minimum-payment pass and then the extra applied to
\* remainingDebts[0], capped at what that debt still owes.
ScriptEntry(d, index, extra) ==
    LET interestPayment == MonthlyInterest(d.balance, d.rate)
        principalPayment == PrincipalPayment(d.minPayment, interestPayment, d.balance)
        afterMinimum == d.balance - principalPayment
        extraApplied == IF extra > 0 /\ index = 1 THEN Min(extra, afterMinimum) ELSE 0
    IN  [name |-> d.name, start |-> d.balance, minPayment |-> d.minPayment,
         rate |-> d.rate, interest |-> interestPayment,
         paid |-> d.minPayment + extraApplied, extra |-> extraApplied,
         balance |-> afterMinimum - extraApplied]

Entry(im, d, index, extra) ==
    IF im = "script" THEN ScriptEntry(d, index, extra)
    ELSE CalculatorsEntry(d, index, extra)

\* timeline.push for every debt of the month with balance <= 0, in array order.
RECURSIVE PaidOffEvents(_, _)
PaidOffEvents(entries, m) ==
    IF entries = << >> THEN << >>
    ELSE (IF Head(entries).balance <= 0
          THEN <<[month |-> m, debtName |-> Head(entries).name]>> ELSE << >>)
         \o PaidOffEvents(Tail(entries), m)

\* remainingDebts.filter(debt => debt.balance > 0)
StillOwedAll(h, remaining) == { remaining[i] : i \in 1..Len(remaining) }
StillOwed(h, remaining) ==
    { a \in { remaining[i] : i \in 1..Len(remaining) } : h[a].balance > 0 }

\* while (remainingDebts.length > 0 && month < 600)
LoopGuardUncapped(remaining, m) == Len(remaining) > 0
LoopGuard(remaining, m) == Len(remaining) > 0 /\ m < MaxMonths

\* One iteration of the while loop on the simulation state S.
MonthStep(im, S, extra) ==
    LET n == Len(S.remainingDebts)
        m == S.month + 1
        entries == [i \in 1..n |-> Entry(im, S.heap[S.remainingDebts[i]], i, extra)]
        pos(a) == CHOOSE i \in 1..n : S.remainingDebts[i] = a
        written == [a \in DOMAIN S.heap |->
                       IF \E i \in 1..n : S.remainingDebts[i] = a
                       THEN [S.heap[a] EXCEPT !.balance = entries[pos(a)].balance]
                       ELSE S.heap[a]]
    IN  [heap |-> written,
         remainingDebts |-> Filter(S.remainingDebts, StillOwed(written, S.remainingDebts)),
         totalPaid |-> S.totalPaid + SumOver([i \in 1..n |-> entries[i].paid], n),
         totalInterest |-> S.totalInterest
                           + SumOver([i \in 1..n |-> entries[i].interest], n),
         month |-> m,
         timeline |-> S.timeline \o PaidOffEvents(entries, m),
         ledger |-> entries,
         extraReached |-> S.extraReached
                          \cup (IF extra > 0 /\ n > 0 THEN {entries[1].name} ELSE {})]

\* The state calculatePayoffPlan starts its loop in.
StartPlan(h, sorted) ==
    LET c == CopyDebts(h, sorted)
    IN  [heap |-> c.heap, remainingDebts |-> c.remainingDebts, totalPaid |-> 0,
         totalInterest |-> 0, month |-> 0, timeline |-> << >>, ledger |-> << >>,
         extraReached |-> {}]

\* The object calculatePayoffPlan returns.
PlanOf(S, strategyName, extra) ==
    [strategy |-> strategyName, totalMonths |-> S.month, totalPaid |-> S.totalPaid,
     totalInterest |-> S.totalInterest, timeline |-> S.timeline,
     monthlySavings |-> IF extra > 0 THEN extra ELSE 0]

StrategyName(strategy) ==
    IF strategy = "avalanche" THEN "Debt Avalanche" ELSE "Debt Snowball"

\* ---------------------------------------------------------------- data store
\* Value model.  A JavaScript object is a function from its own property names
\* to values; a property the object does not have is not in the domain.
\* Arrays are sequences, null is "null", and every timestamp
\* (new Date().toISOString()) is "date".  Of each section the fields kept are
\* the ones the dashboard reads and the ones that differ between the two
\* default objects of script.js.

\* The literal FinancialDataStore is initialised with (it has no debtStrategy).
InitialStore ==
    [income |-> [monthlyNetIncome |-> 0, calculatedDate |-> "null"],
     budget |-> [monthlyIncome |-> 0, expenses |-> {<<"rentMortgage", 0>>},
                 totalExpenses |-> 0, remainingIncome |-> 0,
                 calculatedDate |-> "null"],
     debts |-> << >>,
     emergencyFund |-> [monthlyExpenses |-> 0, targetMonths |-> 6,
                        currentAmount |-> 0, targetAmount |-> 0,
                        calculatedDate |-> "null"],
     goals |-> << >>,
     investments |-> [monthlyAmount |-> 0, timeframe |-> "medium",
                      calculatedDate |-> "null"],
     lastUpdated |-> "null",
     version |-> "1.0"]

\* The literal clearAllData assigns over the store.
ResetStore ==
    [version |-> "1.0",
     income |-> [monthlyNetIncome |-> 0, calculatedDate |-> "null"],
     budget |-> [monthlyIncome |-> 0, expenses |-> {}, totalExpenses |-> 0,
                 lastUpdated |-> "null"],
     debts |-> << >>,
     debtStrategy |-> [extraPayment |-> 0, selectedStrategy |-> "avalanche",
                       lastUpdated |-> "null"],
     emergencyFund |-> [targetAmount |-> 0, currentFund |-> 0,
                        monthlyExpenses |-> 0, targetMonths |-> 6,
                        lastUpdated |-> "null"],
     goals |-> << >>,
     investments |-> [amount |-> 0, timeframe |-> "5-10", lastUpdated |-> "null"],
     lastUpdated |-> "null"]

\* Object.assign(target, source): every own property of source is set on target.
ObjectAssignNothing(target, source) == target
ObjectAssign(target, source) ==
    [k \in DOMAIN target \cup DOMAIN source |->
        IF k \in DOMAIN source THEN source[k] ELSE target[k]]

\* JSON.stringify of an object: its own properties as name/value pairs, and
\* JSON.parse back to an object.
JSONstringify(obj) == { <<k, obj[k]>> : k \in DOMAIN obj }
JSONparse(text) ==
    [k \in { p[1] : p \in text } |-> (CHOOSE p \in text : p[1] = k)[2]]

\* localStorage.setItem / removeItem; localStorage maps keys to what was stored.
setItem(storage, key, value) ==
    [k \in DOMAIN storage \cup {key} |-> IF k = key THEN value ELSE storage[k]]
removeItem(storage, key) == [k \in DOMAIN storage \ {key} |-> storage[k]]

\* An empty localStorage (no key).
EmptyStorage == [k \in {} |-> 0]

\* saveFinancialData: stamps the store and writes it under 'financialData'.
StampedStore(store) == [store EXCEPT !.lastUpdated = "date"]
saveFinancialData(store, storage) ==
    setItem(storage, "financialData", JSONstringify(StampedStore(store)))

\* loadFromLocalStorage(key, defaultValue) for a number and for an array.
loadNumber(storage, key) == IF key \in DOMAIN storage THEN storage[key] ELSE 0
loadArray(storage, key) == IF key \in DOMAIN storage THEN storage[key] ELSE << >>

\* debts.reduce((sum, debt) => sum + debt.balance, 0)
TotalDebt(list) == SumOver([i \in 1..Len(list) |-> list[i].balance], Len(list))

\* updateDashboard: what the metric cards are computed from (0 is shown '--').
updateDashboard(storage) ==
    [monthlyIncome |-> loadNumber(storage, "monthlyIncome"),
     monthlyExpenses |-> loadNumber(storage, "monthlyExpenses"),
     emergencyFund |-> loadNumber(storage, "emergencyFund"),
     totalDebt |-> TotalDebt(loadArray(storage, "debts")),
     goals |-> Len(loadArray(storage, "goals"))]

\* The names displayDebtResults can resolve: its parameters, its locals and
\* the bindings of the enclosing function scope; and the names its template
\* reads.
displayDebtResultsScope ==
    {"selectedPlan", "alternativePlan", "debts", "totalDebt", "minPayments",
     "html", "debtResultsEl", "toCurrency", "Math"}
displayDebtResultsReads ==
    {"selectedPlan", "minPayments", "toCurrency", "Math", "avalanchePlan",
     "snowballPlan"}
\* Reading a name that is in no enclosing scope throws a ReferenceError.
ThrowsReferenceError(reads, scope) == ~(reads \subseteq scope)

\* The debt results panel: empty, the error message, or the rendered plans.
EmptyPanel == [panel |-> "empty"]
ErrorPanel == [panel |-> "error"]
ResultsPanel(selectedPlan, avalanche, snowball) ==
    [panel |-> "results", strategy |-> selectedPlan.strategy,
     totalMonths |-> selectedPlan.totalMonths,
     avalancheMonths |-> avalanche.totalMonths,
     snowballMonths |-> snowball.totalMonths]

\* The value of the payoff-strategy select when the form is submitted.
SelectedStrategies == {"avalanche"}

\* onDebtSubmit, from "Save debts data to FinancialDataStore" to
\* saveToLocalStorage('debts', debts).
onDebtSubmitSave(store, storage, list, extra, strategy) ==
    LET written == ObjectAssign(store,
                      [debts |-> list,
                       debtStrategy |-> [extraPayment |-> extra,
                                         selectedStrategy |-> strategy,
                                         lastUpdated |-> "date"]])
    IN  [store |-> StampedStore(written),
         storage |-> setItem(saveFinancialData(written, storage), "debts", list)]

\* The page as loaded with nothing saved.
StoreFresh ==
    /\ FinancialDataStore = InitialStore
    /\ localStorage = EmptyStorage
    /\ dashboard = updateDashboard(EmptyStorage)
    /\ debtResults = EmptyPanel
    /\ exportFile = {}
    /\ storeAtExport = InitialStore
    /\ lastOp = "load"
    /\ storeOps = 0

\* ---------------------------------------------------------------- blackjack table
\* const ranks, without the suits (no rule reads a suit).
ranks == {"A", "2", "3", "4", "5", "6", "7", "8", "9", "10", "J", "Q", "K"}

\* getCardValue(rank)
getCardValue(rank) ==
    IF rank = "A" THEN 11
    ELSE IF rank \in {"J", "Q", "K"} THEN 10
    ELSE CHOOSE v \in 2..10 : ToString(v) = rank

\* The card objects createDeck pushes.
Card(rank) == [rank |-> rank, value |-> getCardValue(rank)]

\* let gameState = {...}: the state the script starts in (the deck apart).
InitialGameState ==
    [playerHand |-> << >>, dealerHand |-> << >>, playerBalance |-> 1000,
     currentBet |-> 10, gameInProgress |-> FALSE, gamePhase |-> "betting"]

\* updateButtons: the disabled property of the four buttons for a phase.
updateButtons(phase) ==
    [dealBtn |-> phase # "betting",
     hitBtn |-> phase # "playing",
     standBtn |-> phase # "playing",
     newGameBtn |-> phase # "finished"]

\* The table after the load handler (initGame, updateButtons).
GameLoaded ==
    /\ gameState = InitialGameState
    /\ buttons = updateButtons("betting")
    /\ timer = "none"
    /\ balanceBeforeDeal = InitialGameState.playerBalance
    /\ dealtValues = <<0, 0, 0>>
    /\ dealerTrace = << >>
    /\ deals = 0
    /\ hand = << >>
    /\ handValue = 0

\* ---------------------------------------------------------------- pages
payoffVars == <<impl, debts, heap, extraPayment, pc, remainingDebts, totalPaid,
                totalInterest, month, timeline, ledger, extraReached,
                avalanchePlan, snowballPlan, alonePlan, debts0>>
storeVars == <<FinancialDataStore, localStorage, dashboard, debtResults,
               exportFile, storeAtExport, lastOp, storeOps>>
tableVars == <<gameState, buttons, timer, balanceBeforeDeal, dealtValues,
               dealerTrace, deals>>
gameVars == <<tableVars, hand, handValue>>

\* ---------------------------------------------------------------- tools
\* performance.js: the PerformanceOptimizer singleton and the browser's timers.
optimizerVars == <<memoCache, memoReturn, debounceTimers, timeouts, now, nextTimer, debounceCalls, burst>>
OptimizerFresh ==
    /\ memoCache = << >>
    /\ memoReturn = [func |-> "none", args |-> << >>, value |-> 0]
    /\ debounceTimers = [k \in {} |-> 0]
    /\ timeouts = {}
    /\ now = 0
    /\ nextTimer = 1
    /\ debounceCalls = 0
    /\ burst = [id |-> 0, lastTime |-> -1, lastArgs |-> << >>, runs |-> 0, runTime |-> -1, runArgs |-> << >>]

\* The federal tax calculation: its argument and what it returned.
taxVars == <<income, federalTax>>
TaxFresh ==
    /\ income = 0
    /\ federalTax = -1

\* The Annual Income Calculator page: the form's fields and what the page shows.
incomePageVars == <<payForm, payPage>>
IncomePageFresh ==
    /\ payForm = [period |-> "year", payRate |-> << >>, hoursPerWeek |-> << >>, weeksPerYear |-> << >>, bonus |-> << >>]
    /\ payPage = [error |-> "", hidden |-> TRUE, perYear |-> 0, last |-> "load"]

\* The goals page: the list displayGoals rendered, and the goals as the operations so far define them.
goalVars == <<goalsList, appliedGoals, goalClock>>
GoalsFresh ==
    /\ goalsList = << >>
    /\ appliedGoals = << >>
    /\ goalClock = 0

\* mini-challenge-1: the ReactionTimeGame object and its pending timers.
reactionVars == <<reactionState, timeoutId, reactionTimers, nextTimeout, rounds, changedBy>>
ReactionFresh ==
    /\ reactionState = "idle"
    /\ timeoutId = 0
    /\ reactionTimers = {}
    /\ nextTimeout = 1
    /\ rounds = 0
    /\ changedBy = 0

\* aiAssistant.js: a MarketDataService object and the stock requests it started.
marketVars == <<requestQueue, marketCache, fetches, stockCalls, lastReturn>>
MarketFresh ==
    /\ requestQueue = [k \in {} |-> 0]
    /\ marketCache = [k \in {} |-> ""]
    /\ fetches = << >>
    /\ stockCalls = 0
    /\ lastReturn = [kind |-> "none", symbol |-> "", request |-> 0]

\* script.js and the calculators module: one call of each calculatePayoffPlan with the same arguments, in double precision.
parityVars == <<planArgs, legacyRun, modularRun>>
ParityFresh ==
    /\ planArgs = [strategy |-> "none", sortedDebts |-> << >>, extraPayment |-> <<0, 0>>]
    /\ legacyRun = [remainingDebts |-> << >>, month |-> 0, timeline |-> << >>, returned |-> FALSE]
    /\ modularRun = [remainingDebts |-> << >>, month |-> 0, timeline |-> << >>, returned |-> FALSE]

\* The state of the other pages and modules.
toolVars == <<optimizerVars, taxVars, incomePageVars, goalVars, reactionVars, marketVars, parityVars>>
ToolsFresh ==
    /\ OptimizerFresh
    /\ TaxFresh
    /\ IncomePageFresh
    /\ GoalsFresh
    /\ ReactionFresh
    /\ MarketFresh
    /\ ParityFresh

\* What every step of the PerformanceOptimizer leaves alone.
OptimizerStep == UNCHANGED <<payoffVars, storeVars, gameVars, taxVars, incomePageVars, goalVars, reactionVars, marketVars, parityVars>>

\* What every step of the tax calculation leaves alone.
TaxStep == UNCHANGED <<payoffVars, storeVars, gameVars, optimizerVars, incomePageVars, goalVars, reactionVars, marketVars, parityVars>>

\* What every step of the Annual Income Calculator leaves alone.
IncomePageStep == UNCHANGED <<payoffVars, storeVars, gameVars, optimizerVars, taxVars, goalVars, reactionVars, marketVars, parityVars>>

\* What every step of the data pages (store and goals) leaves alone.
DataPagesStep == UNCHANGED <<payoffVars, gameVars, optimizerVars, taxVars, incomePageVars, reactionVars, marketVars, parityVars>>

\* What every step of the reaction time game leaves alone.
ReactionStep == UNCHANGED <<payoffVars, storeVars, gameVars, optimizerVars, taxVars, incomePageVars, goalVars, marketVars, parityVars>>

\* What every step of the market data service leaves alone.
MarketStep == UNCHANGED <<payoffVars, storeVars, gameVars, optimizerVars, taxVars, incomePageVars, goalVars, reactionVars, parityVars>>

\* What every step of the two payoff simulators side by side leaves alone.
ParityStep == UNCHANGED <<payoffVars, storeVars, gameVars, optimizerVars, taxVars, incomePageVars, goalVars, reactionVars, marketVars>>

\* ---------------------------------------------------------------- the run
\* The simulation's variables as one record, and back.
SimState ==
    [heap |-> heap, remainingDebts |-> remainingDebts, totalPaid |-> totalPaid,
     totalInterest |-> totalInterest, month |-> month, timeline |-> timeline,
     ledger |-> ledger, extraReached |-> extraReached]

SetSim(S) ==
    /\ heap' = S.heap
    /\ remainingDebts' = S.remainingDebts
    /\ totalPaid' = S.totalPaid
    /\ totalInterest' = S.totalInterest
    /\ month' = S.month
    /\ timeline' = S.timeline
    /\ ledger' = S.ledger
    /\ extraReached' = S.extraReached

\* The objects the caller's array refers to; the copies of an earlier call
\* are unreachable and dropped.
CallerHeap == SubSeq(heap, 1, Len(debts0))

Init ==
    /\ impl \in Impls
    /\ debts0 \in DebtLists
    /\ heap = debts0
    /\ debts = [i \in 1..Len(debts0) |-> i]
    /\ extraPayment \in ExtraPayments
    /\ pc = "submit"
    /\ remainingDebts = << >>
    /\ totalPaid = 0
    /\ totalInterest = 0
    /\ month = 0
    /\ timeline = << >>
    /\ ledger = << >>
    /\ extraReached = {}
    /\ avalanchePlan = NoPlan
    /\ snowballPlan = NoPlan
    /\ alonePlan = NoPlan
    /\ StoreFresh
    /\ GameLoaded
    /\ ToolsFresh

\* onDebtSubmit with no complete row: the error message, and return.
onDebtSubmitEmpty ==
    /\ pc = "submit"
    /\ Len(debts) = 0
    /\ pc' = "error"
    /\ debtResults' = ErrorPanel
    /\ UNCHANGED <<impl, debts, heap, extraPayment, remainingDebts, totalPaid,
                   totalInterest, month, timeline, ledger, extraReached,
                   avalanchePlan, snowballPlan, alonePlan, debts0>>
    /\ UNCHANGED <<FinancialDataStore, localStorage, dashboard, exportFile,
                   storeAtExport, lastOp, storeOps>>
    /\ UNCHANGED <<gameVars, toolVars>>

\* The sort, the copy and the initialisation of the locals.
Call(strategy) ==
    LET sorted == StableSort(debts, strategy, CallerHeap)
    IN  /\ debts' = CallerArrayAfterSort(debts, sorted)
        /\ SetSim(StartPlan(CallerHeap, sorted))

\* onDebtSubmit: the debts are saved, and then
\* const avalanchePlan = calculateAvalanche(debts, extraPayment)
calculateAvalanche ==
    /\ pc = "submit"
    /\ Len(debts) > 0
    /\ \E strategy \in SelectedStrategies :
          LET saved == onDebtSubmitSave(FinancialDataStore, localStorage,
                                        CallerHeap, extraPayment, strategy)
          IN  /\ FinancialDataStore' = saved.store
              /\ localStorage' = saved.storage
    /\ Call("avalanche")
    /\ pc' = "avalanche"
    /\ UNCHANGED <<impl, extraPayment, avalanchePlan, snowballPlan, alonePlan, debts0>>
    /\ UNCHANGED <<dashboard, debtResults, exportFile, storeAtExport, lastOp, storeOps>>
    /\ UNCHANGED <<gameVars, toolVars>>

\* onDebtSubmit: const snowballPlan = calculateSnowball(debts, extraPayment)
calculateSnowball ==
    /\ pc = "avalancheReturned"
    /\ Call("snowball")
    /\ pc' = "snowball"
    /\ UNCHANGED <<impl, extraPayment, avalanchePlan, snowballPlan, alonePlan, debts0>>
    /\ UNCHANGED <<storeVars, gameVars, toolVars>>

\* One iteration of calculatePayoffPlan's while loop.
Month ==
    /\ pc \in {"snowballAlone", "avalanche", "snowball"}
    /\ LoopGuard(remainingDebts, month)
    /\ SetSim(MonthStep(impl, SimState, extraPayment))
    /\ UNCHANGED <<impl, debts, extraPayment, pc, avalanchePlan, snowballPlan, alonePlan, debts0>>
    /\ UNCHANGED <<storeVars, gameVars, toolVars>>

\* window.calculateSnowball(debts, extraPayment) called on the list before the
\* form is submitted.
calculateSnowballAlone ==
    /\ pc = "submit"
    /\ alonePlan = NoPlan
    /\ Len(debts) > 0
    /\ Call("snowball")
    /\ pc' = "snowballAlone"
    /\ UNCHANGED <<impl, extraPayment, avalanchePlan, snowballPlan, alonePlan, debts0>>
    /\ UNCHANGED <<storeVars, gameVars, toolVars>>

\* The loop's exit and calculatePayoffPlan's return.
ReturnSnowballAlone ==
    /\ pc = "snowballAlone"
    /\ ~LoopGuard(remainingDebts, month)
    /\ alonePlan' = PlanOf(SimState, StrategyName("snowball"), extraPayment)
    /\ pc' = "submit"
    /\ UNCHANGED <<impl, debts, heap, extraPayment, remainingDebts, totalPaid,
                   totalInterest, month, timeline, ledger, extraReached,
                   avalanchePlan, snowballPlan, debts0>>
    /\ UNCHANGED <<storeVars, gameVars, toolVars>>

ReturnAvalanche ==
    /\ pc = "avalanche"
    /\ ~LoopGuard(remainingDebts, month)
    /\ avalanchePlan' = PlanOf(SimState, StrategyName("avalanche"), extraPayment)
    /\ pc' = "avalancheReturned"
    /\ UNCHANGED <<impl, debts, heap, extraPayment, remainingDebts, totalPaid,
                   totalInterest, month, timeline, ledger, extraReached,
                   snowballPlan, alonePlan, debts0>>
    /\ UNCHANGED <<storeVars, gameVars, toolVars>>

ReturnSnowball ==
    /\ pc = "snowball"
    /\ ~LoopGuard(remainingDebts, month)
    /\ snowballPlan' = PlanOf(SimState, StrategyName("snowball"), extraPayment)
    /\ pc' = "done"
    /\ UNCHANGED <<impl, debts, heap, extraPayment, remainingDebts, totalPaid,
                   totalInterest, month, timeline, ledger, extraReached,
                   avalanchePlan, alonePlan, debts0>>
    /\ UNCHANGED <<storeVars, gameVars, toolVars>>

\* onDebtSubmit: displayDebtResults(selectedPlan, alternativePlan, debts) and
\* updateDashboard().  An exception displayDebtResults throws is caught
\* nowhere: the handler ends there.
displayDebtResults ==
    /\ pc = "done"
    /\ IF ThrowsReferenceError(displayDebtResultsReads, displayDebtResultsScope)
       THEN /\ pc' = "uncaught"
            /\ UNCHANGED <<debtResults, dashboard>>
       ELSE /\ pc' = "returned"
            /\ debtResults' =
                  ResultsPanel(IF FinancialDataStore.debtStrategy.selectedStrategy
                                    = "avalanche"
                               THEN avalanchePlan ELSE snowballPlan,
                               avalanchePlan, snowballPlan)
            /\ dashboard' = updateDashboard(localStorage)
    /\ UNCHANGED <<impl, debts, heap, extraPayment, remainingDebts, totalPaid,
                   totalInterest, month, timeline, ledger, extraReached,
                   avalanchePlan, snowballPlan, alonePlan, debts0>>
    /\ UNCHANGED <<FinancialDataStore, localStorage, exportFile, storeAtExport,
                   lastOp, storeOps>>
    /\ UNCHANGED <<gameVars, toolVars>>

Next ==
    \/ onDebtSubmitEmpty
    \/ calculateSnowballAlone
    \/ ReturnSnowballAlone
    \/ calculateAvalanche
    \/ calculateSnowball
    \/ Month
    \/ ReturnAvalanche
    \/ ReturnSnowball
    \/ displayDebtResults

Spec == Init /\ [][Next]_vars

\* ---------------------------------------------------------------- claims
\* A call is in its loop or has just returned (its locals are still in place).
AloneReturned == pc = "submit" /\ alonePlan # NoPlan
InAvalanche == pc \in {"avalanche", "avalancheReturned"}
InSnowball == pc \in {"snowballAlone", "snowball", "done"} \/ AloneReturned
Returned == pc \in {"avalancheReturned", "done"} \/ AloneReturned

\* C1: the month counter, and with it the returned totalMonths, never exceeds
\* 600.
C1_MonthsAtMostCap ==
    /\ month <= MaxMonths
    /\ avalanchePlan # NoPlan => avalanchePlan.totalMonths <= MaxMonths
    /\ snowballPlan # NoPlan => snowballPlan.totalMonths <= MaxMonths
    /\ alonePlan # NoPlan => alonePlan.totalMonths <= MaxMonths

\* A call has returned at the cap with a debt still owed.
C1_Witness ==
    /\ pc = "done"
    /\ snowballPlan.totalMonths = MaxMonths
    /\ remainingDebts # << >>

CallerArray == [i \in 1..Len(debts0) |-> i]
LedgerNames == { ledger[i].name : i \in DOMAIN ledger }
TimelineNames == { timeline[k].debtName : k \in DOMAIN timeline }
RemainingNames == { heap[remainingDebts[i]].name : i \in DOMAIN remainingDebts }
EntriesFor(nm) == { k \in DOMAIN timeline : timeline[k].debtName = nm }

\* C2: the calls leave the caller's list as it was (same order, same balance,
\* rate and minimum payment of every debt), and the snowball plan computed
\* after the avalanche plan is the plan snowball returned when run alone.
C2_CallerListUnchanged ==
    /\ debts = CallerArray
    /\ CallerHeap = debts0
    /\ pc = "done" /\ alonePlan # NoPlan => snowballPlan = alonePlan

\* Both calls have returned, the avalanche call paid something off on its
\* copies, and its sorted order is not the caller's order.
C2_Witness ==
    /\ pc = "done"
    /\ alonePlan # NoPlan
    /\ avalanchePlan.timeline # << >>
    /\ StableSort(debts, "avalanche", CallerHeap) # debts

\* What the rank 0 debt of a month still owes once its minimum payment is made.
OwedAfterMinimum(e) == Max(0, e.start + e.interest - e.minPayment)

C4_PaidOffOnceAndRemoved ==
    /\ \A i \in DOMAIN ledger :
          ledger[i].balance <= 0 =>
             /\ Cardinality(EntriesFor(ledger[i].name)) = 1
             /\ \A k \in EntriesFor(ledger[i].name) : timeline[k].month = month
             /\ ledger[i].name \notin RemainingNames
    /\ \A k \in DOMAIN timeline :
          /\ Cardinality(EntriesFor(timeline[k].debtName)) = 1
          /\ timeline[k].debtName \notin RemainingNames
          /\ timeline[k].month <= month
          /\ timeline[k].month < month => timeline[k].debtName \notin LedgerNames

\* A month was simulated after an earlier month's payoff.
C4_Witness ==
    /\ ledger # << >>
    /\ \E k \in DOMAIN timeline : timeline[k].month < month

\* Two submitted debts, and the names of the one the strategy ranks first.
TwoDebts == Len(debts0) = 2
HigherRate == IF debts0[1].rate > debts0[2].rate THEN 1 ELSE 2
SmallerBalance == IF debts0[1].balance < debts0[2].balance THEN 1 ELSE 2

\* In the month just simulated: while the debt named first is remaining it is
\* at rank 0 and no other debt receives extra, and the other debt is at
\* rank 0 only after first has a timeline entry of an earlier month.
ExtraGoesFirstTo(first) ==
    /\ first \in LedgerNames =>
          /\ ledger[1].name = first
          /\ \A i \in DOMAIN ledger : i > 1 => ledger[i].extra = 0
          /\ impl = "calculators" => ledger[1].extra = extraPayment
    /\ ledger # << >> /\ ledger[1].name # first =>
          \E k \in DOMAIN timeline :
              timeline[k].debtName = first /\ timeline[k].month < month

\* C5: avalanche, two debts of equal balance and different rates, extra > 0:
\* the extra goes to the higher-rate debt until it is paid off, and only in
\* later months to the other.
C5_AvalancheHigherRateFirst ==
    ( /\ InAvalanche
      /\ TwoDebts
      /\ debts0[1].balance = debts0[2].balance
      /\ debts0[1].rate # debts0[2].rate
      /\ extraPayment > 0 )
    => ExtraGoesFirstTo(HigherRate)

\* The lower-rate debt, submitted first, receives the extra after the
\* higher-rate debt's payoff.
C5_Witness ==
    /\ pc = "avalanche"
    /\ TwoDebts
    /\ debts0[1].balance = debts0[2].balance
    /\ debts0[1].rate < debts0[2].rate
    /\ extraPayment > 0
    /\ ledger # << >>
    /\ ledger[1].name = 1
    /\ ledger[1].extra > 0

\* C6: snowball, two debts of different starting balances, extra > 0: the
\* extra goes to the debt of the smaller starting balance until it is paid
\* off, and only in later months to the other.
C6_SnowballSmallerBalanceFirst ==
    ( /\ InSnowball
      /\ TwoDebts
      /\ debts0[1].balance # debts0[2].balance
      /\ extraPayment > 0 )
    => ExtraGoesFirstTo(SmallerBalance)

\* The larger debt, submitted first, receives the extra after the smaller
\* debt's payoff.
C6_Witness ==
    /\ pc = "snowball"
    /\ TwoDebts
    /\ debts0[1].balance > debts0[2].balance
    /\ extraPayment > 0
    /\ ledger # << >>
    /\ ledger[1].name = 1
    /\ ledger[1].extra > 0

\* C7: every month, for every remaining debt, the interest is
\* balance * (rate / 100) / 12 of the balance at the start of the month (to
\* the cent), the new balance is max(0, balance - (payment - interest)) for
\* the payment added to totalPaid, and no balance is negative.
C7_BalanceUpdate ==
    /\ \A i \in DOMAIN ledger :
          /\ ledger[i].interest * 1200 <= ledger[i].start * ledger[i].rate
          /\ ledger[i].start * ledger[i].rate < (ledger[i].interest + 1) * 1200
          /\ ledger[i].balance
                = Max(0, ledger[i].start - (ledger[i].paid - ledger[i].interest))
    /\ \A a \in DOMAIN heap : heap[a].balance >= 0

\* A month in which a payment exceeds balance plus interest: the floor acts.
C7_Witness ==
    \E i \in DOMAIN ledger :
        /\ ledger[i].start - (ledger[i].paid - ledger[i].interest) < 0
        /\ ledger[i].balance = 0

\* The submitted debts, their total, and their first month's interest.
SubmittedBalances == SumOver([i \in 1..Len(debts0) |-> debts0[i].balance], Len(debts0))
FirstInterest(d) == (d.balance * d.rate) \div 1200
SubmittedFirstInterest ==
    SumOver([i \in 1..Len(debts0) |-> FirstInterest(debts0[i])], Len(debts0))
Abs(x) == IF x >= 0 THEN x ELSE 0 - x

\* C8: when a call returns with every debt paid off, totalPaid is
\* totalInterest plus the submitted balances, up to one cent of rounding for
\* every debt and month.
C8_PaidIsInterestPlusPrincipal ==
    Returned /\ remainingDebts = << >> =>
        Abs(totalPaid - (totalInterest + SubmittedBalances)) <= Len(debts0) * month

\* The order the call in progress (or just returned) ranks the submitted debts in.
RankedNames ==
    LET sorted == StableSort(CallerArray, IF InAvalanche THEN "avalanche" ELSE "snowball",
                             debts0)
    IN  [i \in 1..Len(sorted) |-> sorted[i]]

CoversEverything == extraPayment >= SubmittedBalances + SubmittedFirstInterest

\* C9 as stated: a non-empty list and an extra payment of at least all the
\* balances plus their first month's interest give totalMonths = 1.
C9_CoveringExtraOneMonth ==
    Returned /\ Len(debts0) > 0 /\ CoversEverything => month = 1

\* C9 amended: the same, provided every debt other than the one ranked first
\* has a minimum payment of at least its own balance plus first month's
\* interest (as in every list of one debt).
C9_CoveringExtraOneMonthIfOthersCovered ==
    ( /\ Returned
      /\ Len(debts0) > 0
      /\ CoversEverything
      /\ \A i \in 2..Len(debts0) :
            debts0[RankedNames[i]].minPayment
               >= debts0[RankedNames[i]].balance + FirstInterest(debts0[RankedNames[i]]) )
    => month = 1

\* A list of two debts, the second-ranked paid off by its own minimum payment,
\* the first by the extra.
C9_Witness ==
    /\ Returned
    /\ Len(debts0) = 2
    /\ CoversEverything
    /\ debts0[RankedNames[1]].minPayment < debts0[RankedNames[1]].balance
    /\ debts0[RankedNames[2]].minPayment
          >= debts0[RankedNames[2]].balance + FirstInterest(debts0[RankedNames[2]])
    /\ month = 1

\* C10: a debt whose minimum payment is below its monthly interest and that was
\* never the rank 0 debt of a month with an extra payment: the call returns
\* totalMonths = 600 and no timeline entry for that debt.
C10_UnderpaidDebtRunsToCap ==
    Returned =>
        \A i \in 1..Len(debts0) :
            ( /\ debts0[i].minPayment < FirstInterest(debts0[i])
              /\ debts0[i].name \notin extraReached )
            => /\ month = MaxMonths
               /\ debts0[i].name \notin TimelineNames

\* The single underpaid debt with no extra payment, returned at the cap with
\* more owed than submitted.
C10_Witness ==
    /\ Returned
    /\ Len(debts0) = 1
    /\ extraPayment = 0
    /\ debts0[1].minPayment < FirstInterest(debts0[1])
    /\ month = MaxMonths
    /\ Len(remainingDebts) = 1
    /\ heap[remainingDebts[1]].balance > debts0[1].balance

\* ---------------------------------------------------------------- timeline order
\* Position of a debt's entry in the timeline.
TimelinePosition(nm) == CHOOSE k \in DOMAIN timeline : timeline[k].debtName = nm
BothPaidOff == TwoDebts /\ TimelineNames = {1, 2}
EntryBefore(first) == TimelinePosition(first) < TimelinePosition(3 - first)

\* C13 as stated: two debts, extra > 0, both paid off: under avalanche (equal
\* balances, different rates) the higher-rate debt's timeline entry comes
\* before the other's, and under snowball (different balances) the
\* smaller-balance debt's entry comes before the other's.
C13_TimelineInPriorityOrder ==
    BothPaidOff /\ extraPayment > 0 =>
        /\ ( /\ InAvalanche
             /\ debts0[1].balance = debts0[2].balance
             /\ debts0[1].rate # debts0[2].rate ) => EntryBefore(HigherRate)
        /\ ( /\ InSnowball
             /\ debts0[1].balance # debts0[2].balance ) => EntryBefore(SmallerBalance)

\* C13 amended: the timeline is in payoff-month order, and the entries of one
\* month are in the strategy's priority order: the higher-rate (avalanche) or
\* smaller-balance (snowball) debt's entry comes first exactly when that debt
\* is paid off no later than the other.
C13_TimelineByMonthThenPriority ==
    BothPaidOff /\ extraPayment > 0 =>
        /\ timeline[1].month <= timeline[2].month
        /\ ( /\ InAvalanche
             /\ debts0[1].rate # debts0[2].rate )
           => ( EntryBefore(HigherRate)
                <=> timeline[TimelinePosition(HigherRate)].month
                      <= timeline[TimelinePosition(3 - HigherRate)].month )
        /\ ( /\ InSnowball
             /\ debts0[1].balance # debts0[2].balance )
           => ( EntryBefore(SmallerBalance)
                <=> timeline[TimelinePosition(SmallerBalance)].month
                      <= timeline[TimelinePosition(3 - SmallerBalance)].month )

\* Avalanche, the higher-rate debt submitted second, both debts paid off in
\* the same month: the higher-rate debt's entry is first.
C13_Witness ==
    /\ InAvalanche
    /\ BothPaidOff
    /\ extraPayment > 0
    /\ debts0[1].rate < debts0[2].rate
    /\ timeline[1].month = timeline[2].month
    /\ timeline[1].debtName = 2

\* ---------------------------------------------------------------- single debts
\* The list collectDebtData returns for a form of one complete row.
SingleDebt(row) ==
    <<[name |-> 1, balance |-> row.balance, rate |-> row.rate,
       minPayment |-> row.minPayment]>>

\* The locals before the first call on the submitted list.
FreshCaller ==
    /\ impl \in Impls
    /\ heap = debts0
    /\ debts = [i \in 1..Len(debts0) |-> i]
    /\ pc = "submit"
    /\ remainingDebts = << >>
    /\ totalPaid = 0
    /\ totalInterest = 0
    /\ month = 0
    /\ timeline = << >>
    /\ ledger = << >>
    /\ extraReached = {}
    /\ avalanchePlan = NoPlan
    /\ snowballPlan = NoPlan
    /\ alonePlan = NoPlan
    /\ StoreFresh
    /\ GameLoaded
    /\ ToolsFresh

\* The calls on a list that is not empty.
NonEmptyNext ==
    \/ calculateSnowballAlone
    \/ ReturnSnowballAlone
    \/ calculateAvalanche
    \/ calculateSnowball
    \/ Month
    \/ ReturnAvalanche
    \/ ReturnSnowball
    \/ displayDebtResults

\* The documented scenario: $1,200 at 24% with a $100 minimum payment, no extra.
ScenarioRow == [balance |-> 120000, rate |-> 24, minPayment |-> 10000]

ScenarioInit ==
    /\ debts0 = SingleDebt(ScenarioRow)
    /\ extraPayment = 0
    /\ FreshCaller

ScenarioSpec == ScenarioInit /\ [][NonEmptyNext]_vars

\* "About" an amount of dollars: to the nearest dollar.
About(cents, dollars) == Abs(cents - dollars * 100) <= 50

\* C11 as stated: the scenario returns totalMonths = 13 and totalInterest of
\* about 127.
C11_ThirteenMonths ==
    Returned => month = 13 /\ About(totalInterest, 127)

\* C11 amended: the scenario returns totalMonths = 14 and totalInterest of
\* about 186, in every call of both implementations.
C11_FourteenMonths ==
    /\ Returned => month = 14 /\ About(totalInterest, 186) /\ remainingDebts = << >>
    /\ avalanchePlan # NoPlan =>
          avalanchePlan.totalMonths = 14 /\ About(avalanchePlan.totalInterest, 186)
    /\ snowballPlan # NoPlan =>
          snowballPlan.totalMonths = 14 /\ About(snowballPlan.totalInterest, 186)

\* Both plans of the scenario are returned, the debt paid off in month 14.
C11_Witness ==
    /\ pc = "done"
    /\ debts0 = SingleDebt(ScenarioRow)
    /\ extraPayment = 0
    /\ timeline = <<[month |-> 14, debtName |-> 1]>>
    /\ snowballPlan.totalMonths = 14

\* ---------------------------------------------------------------- amortization
\* Single debts whose minimum payment exceeds the monthly interest.
AmortizationBalances == {120000}
AmortizationRates == {0, 24, 240}
AmortizationPayments == {30000, 40000, 130000}
AmortizationRows ==
    [balance : AmortizationBalances, rate : AmortizationRates,
     minPayment : AmortizationPayments]

AmortizationInit ==
    /\ debts0 \in { SingleDebt(row) : row \in AmortizationRows }
    /\ extraPayment = 0
    /\ FreshCaller

AmortizationSpec == AmortizationInit /\ [][NonEmptyNext]_vars

RECURSIVE GCD(_, _)
GCD(x, y) == IF y = 0 THEN x ELSE GCD(y, x % y)

RECURSIVE Pow(_, _)
Pow(x, n) == IF n = 0 THEN 1 ELSE x * Pow(x, n - 1)

\* The closed-form balance B(1+r)^n - P((1+r)^n - 1)/r is <= 0, for
\* r = rate/1200 = a/b in lowest terms: multiplied by a * b^n (and B, P divided
\* by their common divisor) it is B a (a+b)^n - P b ((a+b)^n - b^n).  For
\* rate 0 the closed form is its limit B - nP.
ClosedFormPaidOff(B, P, rate, n) ==
    IF rate = 0 THEN B - n * P <= 0
    ELSE LET g == GCD(rate, 1200)
             a == rate \div g
             b == 1200 \div g
             h == GCD(B, P)
         IN  (B \div h) * a * Pow(a + b, n)
                <= (P \div h) * b * (Pow(a + b, n) - Pow(b, n))

\* The least n >= from at which the closed-form balance is <= 0.
RECURSIVE LeastPaidOffFrom(_, _, _, _)
LeastPaidOffFrom(B, P, rate, from) ==
    IF ClosedFormPaidOff(B, P, rate, from) THEN from
    ELSE LeastPaidOffFrom(B, P, rate, from + 1)

AmortizationMonths(d) == LeastPaidOffFrom(d.balance, d.minPayment, d.rate, 0)

\* minPayment > balance * (rate / 100) / 12
ExceedsMonthlyInterest(d) == d.minPayment * 1200 > d.balance * d.rate

HandlerEnded == pc \in {"error", "uncaught", "returned"}

\* C14: a submit with at least one complete row runs to completion: once the
\* handler has ended the debts are saved, both plans are computed, the results
\* panel shows the selected plan and the comparison, and the dashboard has
\* been updated from what was saved.
C14_SubmitRunsToCompletion ==
    HandlerEnded /\ Len(debts0) > 0 =>
        /\ pc = "returned"
        /\ FinancialDataStore.debts = debts0
        /\ localStorage["debts"] = debts0
        /\ avalanchePlan # NoPlan
        /\ snowballPlan # NoPlan
        /\ debtResults.panel = "results"
        /\ dashboard = updateDashboard(localStorage)

\* ---------------------------------------------------------------- data management
\* Number of operations on the data pages in one session.
MaxStoreOps == 4

\* Form values (cents) the data pages are submitted with.
IncomeValues == {300000}
ExpenseValues == {200000}
FundValues == {50000}
GoalValues == {100000}
InvestmentValues == {10000}
StoreDebtLists == { SingleDebt(row) : row \in {[balance |-> 120000, rate |-> 12,
                                                 minPayment |-> 130000]} }

\* The sections of the data store.
Sections ==
    {"income", "budget", "debts", "debtStrategy", "emergencyFund", "goals",
     "investments"}

StoreInit ==
    /\ impl = "script"
    /\ debts0 = << >>
    /\ extraPayment = 0
    /\ FreshCaller

\* What every data page operation leaves alone.
StoreStep(op) ==
    /\ storeOps < MaxStoreOps
    /\ storeOps' = storeOps + 1
    /\ lastOp' = op
    /\ DataPagesStep

\* A data page operation that is not about goals.
NoGoalStep(op) == StoreStep(op) /\ UNCHANGED goalVars

\* The income form: onIncomeSubmit from "Save income data" on.
onIncomeSubmit ==
    /\ NoGoalStep("income")
    /\ \E monthlyNetIncome \in IncomeValues :
          LET written == [FinancialDataStore EXCEPT
                            !.income = ObjectAssign(@,
                                [monthlyNetIncome |-> monthlyNetIncome,
                                 calculatedDate |-> "date"])]
          IN  /\ FinancialDataStore' = StampedStore(written)
              /\ localStorage' = setItem(saveFinancialData(written, localStorage),
                                         "monthlyIncome", monthlyNetIncome)
    /\ UNCHANGED <<dashboard, debtResults, exportFile, storeAtExport>>

\* The budget form: onBudgetSubmit from "Save budget data" on.
onBudgetSubmit ==
    /\ NoGoalStep("budget")
    /\ \E monthlyIncome \in IncomeValues, rent \in ExpenseValues :
          LET written == [FinancialDataStore EXCEPT
                            !.budget = ObjectAssign(@,
                                [monthlyIncome |-> monthlyIncome,
                                 expenses |-> {<<"rentMortgage", rent>>},
                                 totalExpenses |-> rent,
                                 lastUpdated |-> "date"])]
              stored == setItem(setItem(saveFinancialData(written, localStorage),
                                        "monthlyExpenses", rent),
                                "lastBudgetUpdate", "date")
          IN  /\ FinancialDataStore' = StampedStore(written)
              /\ localStorage' = stored
              /\ dashboard' = updateDashboard(stored)
    /\ UNCHANGED <<debtResults, exportFile, storeAtExport>>

\* The debt form, as far as the data pages see it: the save, and the display
\* and updateDashboard() calls that follow the two plan computations.
onDebtSubmit ==
    /\ NoGoalStep("debts")
    /\ \E list \in StoreDebtLists, strategy \in SelectedStrategies :
          LET saved == onDebtSubmitSave(FinancialDataStore, localStorage, list, 0,
                                        strategy)
          IN  /\ FinancialDataStore' = saved.store
              /\ localStorage' = saved.storage
              /\ IF ThrowsReferenceError(displayDebtResultsReads,
                                         displayDebtResultsScope)
                 THEN UNCHANGED <<debtResults, dashboard>>
                 ELSE /\ debtResults' = [panel |-> "results"]
                      /\ dashboard' = updateDashboard(saved.storage)
    /\ UNCHANGED <<exportFile, storeAtExport>>

\* The emergency fund form: onEmergencySubmit with valid monthly expenses.
onEmergencySubmit ==
    /\ NoGoalStep("emergencyFund")
    /\ \E monthlyExpenses \in ExpenseValues, currentFund \in FundValues :
          LET targetMonths == InitialStore.emergencyFund.targetMonths
              written == [FinancialDataStore EXCEPT
                            !.emergencyFund =
                                [targetAmount |-> monthlyExpenses * targetMonths,
                                 currentFund |-> currentFund,
                                 monthlyExpenses |-> monthlyExpenses,
                                 targetMonths |-> targetMonths,
                                 lastUpdated |-> "date"]]
              stored == setItem(setItem(saveFinancialData(written, localStorage),
                                        "emergencyFund", currentFund),
                                "monthlyExpenses", monthlyExpenses)
          IN  /\ FinancialDataStore' = StampedStore(written)
              /\ localStorage' = stored
              /\ dashboard' = updateDashboard(stored)
    /\ UNCHANGED <<debtResults, exportFile, storeAtExport>>

\* The goals form: onGoalsSubmit with a valid goal.
onGoalsSubmit ==
    /\ StoreStep("goals")
    /\ \E targetAmount \in GoalValues :
          LET goal == [id |-> goalClock + 1, name |-> "goal",
                       targetAmount |-> targetAmount, currentAmount |-> 0,
                       created |-> "date"]
              existingGoals == Append(FinancialDataStore.goals, goal)
              written == [FinancialDataStore EXCEPT !.goals = existingGoals]
              stored == setItem(saveFinancialData(written, localStorage),
                                "goals", existingGoals)
          IN  /\ FinancialDataStore' = StampedStore(written)
              /\ localStorage' = stored
              /\ goalsList' = loadArray(stored, "goals")
              /\ dashboard' = updateDashboard(stored)
              /\ appliedGoals' = Append(appliedGoals, goal)
    /\ goalClock' = goalClock + 1
    /\ UNCHANGED <<debtResults, exportFile, storeAtExport>>

\* The investment form: onInvestmentSubmit with a valid amount.
onInvestmentSubmit ==
    /\ NoGoalStep("investments")
    /\ \E investmentAmount \in InvestmentValues :
          LET written == [FinancialDataStore EXCEPT
                            !.investments = [amount |-> investmentAmount,
                                             timeframe |-> "5-10",
                                             lastUpdated |-> "date"]]
          IN  /\ FinancialDataStore' = StampedStore(written)
              /\ localStorage' = saveFinancialData(written, localStorage)
    /\ UNCHANGED <<dashboard, debtResults, exportFile, storeAtExport>>

\* Export Data: the downloaded file holds JSON.stringify(FinancialDataStore).
exportFinancialData ==
    /\ NoGoalStep("export")
    /\ exportFile' = JSONstringify(FinancialDataStore)
    /\ storeAtExport' = FinancialDataStore
    /\ UNCHANGED <<FinancialDataStore, localStorage, dashboard, debtResults>>

\* Import Data with the file of the last export: reader.onload.
importFinancialData ==
    /\ NoGoalStep("import")
    /\ exportFile # {}
    /\ LET importedData == JSONparse(exportFile)
       IN  IF "version" \in DOMAIN importedData
           THEN LET written == ObjectAssign(FinancialDataStore, importedData)
                    stored == saveFinancialData(written, localStorage)
                IN  /\ FinancialDataStore' = StampedStore(written)
                    /\ localStorage' = stored
                    /\ dashboard' = updateDashboard(stored)
           ELSE UNCHANGED <<FinancialDataStore, localStorage, dashboard>>
    /\ UNCHANGED <<debtResults, exportFile, storeAtExport>>

\* Clear Data, confirmed.
clearAllData ==
    /\ NoGoalStep("clear")
    /\ LET stored == removeItem(localStorage, "financialData")
       IN  /\ localStorage' = stored
           /\ FinancialDataStore' = ObjectAssign(FinancialDataStore, ResetStore)
           /\ debtResults' = EmptyPanel
           /\ dashboard' = updateDashboard(stored)
    /\ UNCHANGED <<exportFile, storeAtExport>>

\* Clear Data, cancelled in the confirm dialog.
clearAllDataCancelled ==
    /\ NoGoalStep(lastOp)
    /\ UNCHANGED <<FinancialDataStore, localStorage, dashboard, debtResults,
                   exportFile, storeAtExport>>

\* switchTab('dashboard'): the dashboard is refreshed.
switchTab ==
    /\ NoGoalStep(lastOp)
    /\ dashboard' = updateDashboard(localStorage)
    /\ UNCHANGED <<FinancialDataStore, localStorage, debtResults, exportFile,
                   storeAtExport>>

StoreNext ==
    \/ onIncomeSubmit
    \/ onBudgetSubmit
    \/ onDebtSubmit
    \/ onEmergencySubmit
    \/ onGoalsSubmit
    \/ onInvestmentSubmit
    \/ exportFinancialData
    \/ importFinancialData
    \/ clearAllData
    \/ clearAllDataCancelled
    \/ switchTab

StoreSpec == StoreInit /\ [][StoreNext]_vars

\* What the dashboard is computed from when nothing is saved: every card '--'.
NothingToShow == updateDashboard(EmptyStorage)

\* C15: after a confirmed Clear All Data (and until data is entered again) the
\* store holds the default values clearAllData resets it to, and the
\* dashboard, refreshed by the clear and by every later refresh, shows no
\* income, expenses, emergency fund, debts or goals.
C15_ClearLeavesNothing ==
    lastOp = "clear" =>
        /\ FinancialDataStore = ResetStore
        /\ dashboard = NothingToShow

\* A section of a store: present with that value, or not a property.
SameSection(a, b, section) ==
    /\ section \in DOMAIN a <=> section \in DOMAIN b
    /\ section \in DOMAIN a /\ section \in DOMAIN b => a[section] = b[section]

\* C16: after an import of the exported file every section of the store has
\* the value it had at export time, whatever was done in between.
C16_ImportRestoresEverySection ==
    lastOp = "import" =>
        \A section \in Sections :
            SameSection(FinancialDataStore, storeAtExport, section)

\* ---------------------------------------------------------------- blackjack
\* The deck.  shuffleDeck leaves the cards in any order and dealCard refills
\* an empty deck, so the card dealCard pops is any rank; the model does not
\* record which cards have left the deck.  DeckRanks are the ranks drawn.
DeckRanks == {"A", "6", "K"}

\* Hands dealt in one session, and the bets placed.
MaxDeals == 1
BetAmounts == {25}

\* calculateHandValue: every ace 11, then 10 off per ace while above 21.
RECURSIVE SumCards(_)
SumCards(cards) ==
    IF cards = << >> THEN 0
    ELSE (IF Head(cards).rank = "A" THEN 11 ELSE Head(cards).value)
         + SumCards(Tail(cards))

CountAces(cards) == Cardinality({ i \in DOMAIN cards : cards[i].rank = "A" })

AdjustForAcesOnce(value, aces) ==
    IF value > 21 /\ aces > 0 THEN value - 10 ELSE value

RECURSIVE AdjustForAces(_, _)
AdjustForAces(value, aces) ==
    IF value > 21 /\ aces > 0 THEN AdjustForAces(value - 10, aces - 1) ELSE value

calculateHandValue(cards) == AdjustForAces(SumCards(cards), CountAces(cards))

\* dealerPlay: the callback it schedules for a dealer value.
dealerPlayAlwaysStands(dealerValue) == "determineWinner"
dealerPlayHitsSoft17(dealerValue) ==
    IF dealerValue <= 17 THEN "draw" ELSE "determineWinner"
dealerPlay(dealerValue) == IF dealerValue < 17 THEN "draw" ELSE "determineWinner"

\* Math.floor(gameState.currentBet * 2.5)
BlackjackWinningsEvenMoney(bet) == bet * 2
BlackjackWinnings(bet) == (bet * 5) \div 2

\* A click runs the button's handler only while the button is not disabled.
Clickable(button) == ~buttons[button]

\* What every step at the table leaves alone.
TableStep == UNCHANGED <<payoffVars, storeVars, hand, handValue, toolVars>>

\* A quick bet button: setBet(amount).
setBet ==
    /\ TableStep
    /\ gameState.gamePhase = "betting"
    /\ \E amount \in BetAmounts :
          /\ amount <= gameState.playerBalance
          /\ gameState' = [gameState EXCEPT !.currentBet = amount]
    /\ UNCHANGED <<buttons, timer, balanceBeforeDeal, dealtValues, dealerTrace, deals>>

\* What parseInt gives for the text typed into the bet amount field, and the
\* check of the input listener on it.
BetInputs == BetAmounts \cup {0, 2000}
AnyBetInput(betAmount, balance) == TRUE
ValidBetInput(betAmount, balance) == betAmount > 0 /\ betAmount <= balance

\* The input listener of the bet amount field.
betAmountInput ==
    /\ TableStep
    /\ \E betAmount \in BetInputs :
          /\ ValidBetInput(betAmount, gameState.playerBalance)
          /\ gameState' = [gameState EXCEPT !.currentBet = betAmount]
    /\ UNCHANGED <<buttons, timer, balanceBeforeDeal, dealtValues, dealerTrace, deals>>

\* Deal: dealCards with enough balance (with a bet above the balance it only
\* shows "Insufficient balance!").
dealCards ==
    /\ Clickable("dealBtn")
    /\ gameState.gamePhase = "betting"
    /\ gameState.currentBet <= gameState.playerBalance
    /\ deals < MaxDeals
    /\ TableStep
    /\ deals' = deals + 1
    /\ balanceBeforeDeal' = gameState.playerBalance
    /\ \E p1 \in DeckRanks, d1 \in DeckRanks, p2 \in DeckRanks, d2 \in DeckRanks :
          LET playerHand == <<Card(p1), Card(p2)>>
              dealerHand == <<Card(d1), Card(d2)>>
              bet == gameState.currentBet
              staked == gameState.playerBalance - bet
              playerValue == calculateHandValue(playerHand)
              dealerValue == calculateHandValue(dealerHand)
              phase == IF playerValue = 21 THEN "finished" ELSE "playing"
              balance == IF playerValue = 21
                         THEN IF dealerValue = 21 THEN staked + bet
                              ELSE staked + BlackjackWinnings(bet)
                         ELSE staked
          IN  /\ gameState' = [gameState EXCEPT !.playerHand = playerHand,
                                                !.dealerHand = dealerHand,
                                                !.playerBalance = balance,
                                                !.gameInProgress = TRUE,
                                                !.gamePhase = phase]
              /\ dealtValues' = <<playerValue, dealerValue, bet>>
              /\ buttons' = updateButtons(phase)
    /\ dealerTrace' = << >>
    /\ UNCHANGED timer

\* stand(), from its phase check on: the phase, and dealerPlay's first look.
standFrom(state) ==
    [gameState |-> [state EXCEPT !.gamePhase = "dealer"],
     timer |-> dealerPlay(calculateHandValue(state.dealerHand))]

\* Hit: hit().
hit ==
    /\ Clickable("hitBtn")
    /\ TableStep
    /\ IF gameState.gamePhase # "playing"
       THEN UNCHANGED <<gameState, buttons, timer, dealerTrace>>
       ELSE \E rank \in DeckRanks :
              LET drawn == [gameState EXCEPT !.playerHand = Append(@, Card(rank))]
                  playerValue == calculateHandValue(drawn.playerHand)
              IN  IF playerValue > 21
                  THEN /\ gameState' = [drawn EXCEPT !.gamePhase = "finished"]
                       /\ buttons' = updateButtons("finished")
                       /\ UNCHANGED <<timer, dealerTrace>>
                  ELSE IF playerValue = 21
                  THEN /\ gameState' = standFrom(drawn).gameState
                       /\ timer' = standFrom(drawn).timer
                       /\ dealerTrace' =
                             Append(dealerTrace,
                                    [value |-> calculateHandValue(drawn.dealerHand),
                                     next |-> standFrom(drawn).timer])
                       /\ buttons' = updateButtons("dealer")
                  ELSE /\ gameState' = drawn
                       /\ buttons' = updateButtons("playing")
                       /\ UNCHANGED <<timer, dealerTrace>>
    /\ UNCHANGED <<balanceBeforeDeal, dealtValues, deals>>

\* Stand: stand().
stand ==
    /\ Clickable("standBtn")
    /\ TableStep
    /\ IF gameState.gamePhase # "playing"
       THEN UNCHANGED <<gameState, timer, dealerTrace>>
       ELSE /\ gameState' = standFrom(gameState).gameState
            /\ timer' = standFrom(gameState).timer
            /\ dealerTrace' =
                  Append(dealerTrace,
                         [value |-> calculateHandValue(gameState.dealerHand),
                          next |-> standFrom(gameState).timer])
    /\ UNCHANGED <<buttons, balanceBeforeDeal, dealtValues, deals>>

\* The callback dealerPlay scheduled below 17: one card, and dealerPlay again.
dealerDraw ==
    /\ timer = "draw"
    /\ TableStep
    /\ \E rank \in DeckRanks :
          LET drawn == [gameState EXCEPT !.dealerHand = Append(@, Card(rank))]
              dealerValue == calculateHandValue(drawn.dealerHand)
          IN  /\ gameState' = drawn
              /\ timer' = dealerPlay(dealerValue)
              /\ dealerTrace' = Append(dealerTrace,
                                       [value |-> dealerValue,
                                        next |-> dealerPlay(dealerValue)])
    /\ UNCHANGED <<buttons, balanceBeforeDeal, dealtValues, deals>>

\* The callback dealerPlay scheduled at 17 or more: determineWinner().
determineWinner ==
    /\ timer = "determineWinner"
    /\ TableStep
    /\ LET playerValue == calculateHandValue(gameState.playerHand)
           dealerValue == calculateHandValue(gameState.dealerHand)
           bet == gameState.currentBet
           winnings == IF dealerValue > 21 THEN bet * 2
                       ELSE IF playerValue > dealerValue THEN bet * 2
                       ELSE IF dealerValue > playerValue THEN 0
                       ELSE bet
       IN  /\ gameState' = [gameState EXCEPT !.gamePhase = "finished",
                                             !.playerBalance = @ + winnings]
           /\ dealerTrace' = Append(dealerTrace,
                                    [value |-> dealerValue, next |-> "finished"])
    /\ timer' = "none"
    /\ buttons' = updateButtons("finished")
    /\ UNCHANGED <<balanceBeforeDeal, dealtValues, deals>>

\* New Game: newGame().
newGame ==
    /\ Clickable("newGameBtn")
    /\ TableStep
    /\ gameState' = [gameState EXCEPT !.gamePhase = "betting",
                                      !.gameInProgress = FALSE,
                                      !.playerHand = << >>,
                                      !.dealerHand = << >>]
    /\ buttons' = updateButtons("betting")
    /\ UNCHANGED <<timer, balanceBeforeDeal, dealtValues, dealerTrace, deals>>

GameInit ==
    /\ impl = "script"
    /\ debts0 = << >>
    /\ extraPayment = 0
    /\ FreshCaller

GameNext ==
    \/ setBet
    \/ betAmountInput
    \/ dealCards
    \/ hit
    \/ stand
    \/ dealerDraw
    \/ determineWinner
    \/ newGame

GameSpec == GameInit /\ [][GameNext]_vars

\* ---------------------------------------------------------------- hands
\* Longest hand given to calculateHandValue.
MaxHandLen == 3

HandInit ==
    /\ impl = "script"
    /\ debts0 = << >>
    /\ extraPayment = 0
    /\ FreshCaller

\* calculateHandValue(hand) for the hand with one more card of any rank.
calculateHandValueOfHand ==
    /\ Len(hand) < MaxHandLen
    /\ \E rank \in ranks :
          /\ hand' = Append(hand, Card(rank))
          /\ handValue' = calculateHandValue(hand')
    /\ UNCHANGED <<payoffVars, storeVars, tableVars, toolVars>>

HandSpec == HandInit /\ [][calculateHandValueOfHand]_vars

\* The totals of a hand with k of its aces counted as 11 and the others as 1.
HardTotal(cards) ==
    SumOver([i \in 1..Len(cards) |->
                IF cards[i].rank = "A" THEN 1 ELSE cards[i].value], Len(cards))
Totals(cards) == { HardTotal(cards) + 10 * k : k \in 0..CountAces(cards) }
BestTotal(cards) ==
    LET notAbove == { t \in Totals(cards) : t <= 21 }
    IN  IF notAbove # {} THEN CHOOSE t \in notAbove : \A u \in notAbove : u <= t
        ELSE HardTotal(cards)

\* C18: calculateHandValue returns the largest total not above 21 obtainable
\* by counting each ace as 1 or 11, and the total with every ace as 1 when
\* there is none.
C18_BestTotalOfHand == handValue = BestTotal(hand)

\* Two aces and a nine: one ace counts 11, the other 1.
C18_Witness ==
    /\ Len(hand) = 3
    /\ CountAces(hand) = 2
    /\ handValue = 21

\* ---------------------------------------------------------------- table claims
PlayerValue == calculateHandValue(gameState.playerHand)
DealerValue == calculateHandValue(gameState.dealerHand)

\* The cards the dealer has drawn since the player stood: every look of
\* dealerPlay after the first follows one draw.
DealerDraws ==
    Cardinality({ k \in 2..Len(dealerTrace) : dealerTrace[k].next # "finished" })

\* C17: after the stand the dealer draws, one card at a time, exactly while
\* its value is 16 or less; it draws no card at 17 or more, and
\* determineWinner runs only with a dealer value of 17 or more.
C17_DealerDrawsTo17 ==
    /\ \A k \in DOMAIN dealerTrace :
          /\ dealerTrace[k].next = "draw" <=> dealerTrace[k].value <= 16
          /\ dealerTrace[k].next \in {"determineWinner", "finished"}
                <=> dealerTrace[k].value >= 17
    /\ timer = "draw" => DealerValue <= 16 /\ gameState.gamePhase = "dealer"
    /\ timer = "determineWinner" => DealerValue >= 17 /\ gameState.gamePhase = "dealer"
    /\ gameState.gamePhase = "dealer" => timer # "none"
    /\ gameState.dealerHand # << >> /\ dealerTrace # << >> =>
          Len(gameState.dealerHand) = 2 + DealerDraws

\* The dealer drew twice from 12 and determineWinner ran at 17 or more.
C17_Witness ==
    /\ Len(dealerTrace) >= 4
    /\ dealerTrace[1].value = 12
    /\ dealerTrace[Len(dealerTrace)].next = "finished"
    /\ Len(gameState.dealerHand) = 4
    /\ gameState.gamePhase = "finished"

\* C19: a player 21 on the deal ends the hand at once in phase 'finished';
\* against a dealer without 21 the balance is the balance before the deal
\* plus floor(1.5 * bet), against a dealer 21 the balance before the deal.
C19_BlackjackPaysThreeToTwo ==
    ( /\ Len(gameState.playerHand) = 2
      /\ Len(gameState.dealerHand) = 2
      /\ PlayerValue = 21 )
    => /\ gameState.gamePhase = "finished"
       /\ dealtValues[1] = 21
       /\ DealerValue # 21 =>
             gameState.playerBalance = balanceBeforeDeal + (3 * dealtValues[3]) \div 2
       /\ DealerValue = 21 => gameState.playerBalance = balanceBeforeDeal

\* A blackjack on a bet of 25 against a dealer 20: 37 more than before the deal.
C19_Witness ==
    /\ Len(gameState.playerHand) = 2
    /\ PlayerValue = 21
    /\ DealerValue = 20
    /\ dealtValues[3] = 25
    /\ gameState.gamePhase = "finished"
    /\ gameState.playerBalance = balanceBeforeDeal + 37

\* C20: in every state the four buttons are disabled as updateButtons
\* prescribes for the current gamePhase: Hit and Stand are disabled in phase
\* 'dealer', and New Game is enabled only in phase 'finished'.
C20_ButtonsFollowPhase ==
    /\ buttons = updateButtons(gameState.gamePhase)
    /\ gameState.gamePhase = "dealer" => buttons.hitBtn /\ buttons.standBtn
    /\ ~buttons.newGameBtn => gameState.gamePhase = "finished"

\* ---------------------------------------------------------------- memoize
\* The pure functions wrapped with memoize, and the argument lists they get.
MemoFuncs == {"double", "square", "increment"}
MemoArgs == { <<x>> : x \in 1..3 }
Apply(func, args) ==
    IF func = "double" THEN 2 * args[1]
    ELSE IF func = "square" THEN args[1] * args[1]
    ELSE args[1] + 1

\* The default key of memoize: JSON.stringify(args).
JSONstringifyArgs(args) == ToString(args)

\* Map.has / get / set on entries kept in insertion order.
MapHas(map, key) == \E i \in DOMAIN map : map[i][1] = key
MapGet(map, key) == map[CHOOSE i \in DOMAIN map : map[i][1] = key][2]
MapSet(map, key, value) ==
    IF MapHas(map, key)
    THEN [i \in DOMAIN map |-> IF map[i][1] = key THEN <<key, value>> ELSE map[i]]
    ELSE Append(map, <<key, value>>)

\* The sizes at which memoize and the periodic cleanup drop entries.
MemoCacheLimit == 1000
CleanupThreshold == 500

\* A wrapper returned by memoize(func) called with args.
memoize ==
    /\ OptimizerStep
    /\ \E func \in MemoFuncs, args \in MemoArgs :
          LET key == JSONstringifyArgs(args)
              result == Apply(func, args)
              set == MapSet(memoCache, key, result)
          IN  IF MapHas(memoCache, key)
              THEN /\ memoReturn' = [func |-> func, args |-> args,
                                     value |-> MapGet(memoCache, key)]
                   /\ UNCHANGED memoCache
              ELSE /\ memoCache' = IF Len(set) > MemoCacheLimit THEN Tail(set) ELSE set
                   /\ memoReturn' = [func |-> func, args |-> args, value |-> result]
    /\ UNCHANGED <<debounceTimers, timeouts, now, nextTimer, debounceCalls, burst>>

\* clearMemoCache() without a pattern.
clearMemoCache ==
    /\ OptimizerStep
    /\ memoCache' = << >>
    /\ UNCHANGED <<memoReturn, debounceTimers, timeouts, now, nextTimer,
                   debounceCalls, burst>>

\* The setInterval callback of setupMemoryManagement.
performPeriodicCleanup ==
    /\ OptimizerStep
    /\ memoCache' = IF Len(memoCache) > CleanupThreshold
                    THEN SubSeq(memoCache, Len(memoCache) \div 2 + 1, Len(memoCache))
                    ELSE memoCache
    /\ debounceTimers' = [k \in {} |-> 0]
    /\ UNCHANGED <<memoReturn, timeouts, now, nextTimer, debounceCalls, burst>>

MemoInit ==
    /\ impl = "script"
    /\ debts0 = << >>
    /\ extraPayment = 0
    /\ FreshCaller

MemoNext ==
    \/ memoize
    \/ clearMemoCache
    \/ performPeriodicCleanup

MemoSpec == MemoInit /\ [][MemoNext]_vars

\* C21: a memoized wrapper returns what the wrapped function returns for the
\* arguments of the call, also after other wrapped functions were called
\* with the same arguments.
C21_WrapperReturnsValueOfFunction ==
    memoReturn.func # "none" => memoReturn.value = Apply(memoReturn.func, memoReturn.args)

\* ---------------------------------------------------------------- debounce
\* Ticks the clock runs, and calls of debounced wrappers in one run.
MaxTime == 5
MaxDebounceCalls == 3

\* The wrappers made with debounce(func, delay, key): the watched one, and
\* another with a key of its own.  Delays are in ticks.
Watched == [func |-> "validate", delay |-> 2, key |-> "validation-amount"]
Other == [func |-> "updateDashboard", delay |-> 3, key |-> "dashboard-update"]
Wrappers == {Watched, Other}
DebounceArgs == { <<"a">>, <<"b">> }

\* clearTimeout(id).
clearTimeoutOf(pending, id) == { t \in pending : t.id # id }

\* The burst of the watched wrapper after a call at the time now: a call
\* less than delay after the previous one continues the burst, a later call
\* starts the next one.  A timeout belongs to the burst of the call that set it.
BurstAfterCall(args) ==
    IF burst.lastTime >= 0 /\ now - burst.lastTime < Watched.delay
    THEN [burst EXCEPT !.lastTime = now, !.lastArgs = args]
    ELSE [id |-> burst.id + 1, lastTime |-> now, lastArgs |-> args, runs |-> 0,
          runTime |-> -1, runArgs |-> << >>]

\* A call of a debounced wrapper: lines 29-41.
debounce ==
    /\ OptimizerStep
    /\ debounceCalls < MaxDebounceCalls
    /\ debounceCalls' = debounceCalls + 1
    /\ \E w \in Wrappers, args \in DebounceArgs :
          LET cleared == IF w.key \in DOMAIN debounceTimers
                         THEN clearTimeoutOf(timeouts, debounceTimers[w.key])
                         ELSE timeouts
              timerOfCall == [id |-> nextTimer, due |-> now + w.delay,
                              func |-> w.func, key |-> w.key, args |-> args,
                              burst |-> IF w = Watched THEN BurstAfterCall(args).id
                                        ELSE 0]
          IN  /\ timeouts' = cleared \cup {timerOfCall}
              /\ debounceTimers' =
                    [k \in DOMAIN debounceTimers \cup {w.key} |->
                        IF k = w.key THEN nextTimer ELSE debounceTimers[k]]
              /\ burst' = IF w = Watched THEN BurstAfterCall(args) ELSE burst
    /\ nextTimer' = nextTimer + 1
    /\ UNCHANGED <<memoCache, memoReturn, now>>

\* The callback debounce gave to setTimeout: lines 35-38.
debounceTimeout ==
    /\ OptimizerStep
    /\ \E t \in timeouts :
          /\ t.due <= now
          /\ timeouts' = timeouts \ {t}
          /\ debounceTimers' = [k \in DOMAIN debounceTimers \ {t.key} |-> debounceTimers[k]]
          /\ burst' = IF t.func = Watched.func /\ t.burst = burst.id
                      THEN [burst EXCEPT !.runs = @ + 1, !.runTime = now,
                                         !.runArgs = t.args]
                      ELSE burst
    /\ UNCHANGED <<memoCache, memoReturn, now, nextTimer, debounceCalls>>

\* Time passes once the callbacks that are due have run.
Tick ==
    /\ OptimizerStep
    /\ now < MaxTime
    /\ \A t \in timeouts : t.due > now
    /\ now' = now + 1
    /\ UNCHANGED <<memoCache, memoReturn, debounceTimers, timeouts, nextTimer,
                   debounceCalls, burst>>

DebounceInit ==
    /\ impl = "script"
    /\ debts0 = << >>
    /\ extraPayment = 0
    /\ FreshCaller

DebounceNext ==
    \/ debounce
    \/ debounceTimeout
    \/ Tick
    \/ performPeriodicCleanup

DebounceSpec == DebounceInit /\ [][DebounceNext]_vars

\* C22: a burst of calls of a debounced wrapper, each less than delay after
\* the one before, makes the function run exactly once: not before delay
\* after the last call, with the arguments of the last call, and it has run
\* once that time has passed.
C22_BurstRunsOnceAfterLastCall ==
    burst.lastTime >= 0 =>
        /\ burst.runs <= 1
        /\ burst.runs = 1 =>
              /\ burst.runTime >= burst.lastTime + Watched.delay
              /\ burst.runArgs = burst.lastArgs
        /\ now > burst.lastTime + Watched.delay => burst.runs = 1

\* ---------------------------------------------------------------- federal tax
\* Infinity, as the max of the last bracket: above every income considered.
Infinity == 1000000000

\* federalTaxBrackets (script.js) and FEDERAL_TAX_BRACKETS (calculators);
\* rates in percent, so that rate * dollars is an amount in cents.
federalTaxBrackets ==
    << [min |-> 0, max |-> 11000, rate |-> 10],
       [min |-> 11000, max |-> 44725, rate |-> 12],
       [min |-> 44725, max |-> 95375, rate |-> 22],
       [min |-> 95375, max |-> 182050, rate |-> 24],
       [min |-> 182050, max |-> 231250, rate |-> 32],
       [min |-> 231250, max |-> 578125, rate |-> 35],
       [min |-> 578125, max |-> Infinity, rate |-> 37] >>
FEDERAL_TAX_BRACKETS ==
    << [min |-> 0, max |-> 11000, rate |-> 10],
       [min |-> 11001, max |-> 44725, rate |-> 12],
       [min |-> 44726, max |-> 95375, rate |-> 22],
       [min |-> 95376, max |-> 182050, rate |-> 24],
       [min |-> 182051, max |-> 231250, rate |-> 32],
       [min |-> 231251, max |-> 578125, rate |-> 35],
       [min |-> 578126, max |-> Infinity, rate |-> 37] >>

\* The width the loop gives a bracket: max - min in script.js,
\* max - min + 1 in the calculators module.
BracketWidth(which, bracket) ==
    IF which = "script" THEN bracket.max - bracket.min
    ELSE bracket.max - bracket.min + 1

\* The for loop of calculateFederalTax from bracket i on.
RECURSIVE TaxFrom(_, _, _, _)
TaxFrom(which, brackets, i, remainingIncome) ==
    IF i > Len(brackets) \/ remainingIncome <= 0 THEN 0
    ELSE LET taxableInBracket == Min(remainingIncome, BracketWidth(which, brackets[i]))
         IN  taxableInBracket * brackets[i].rate
             + TaxFrom(which, brackets, i + 1, remainingIncome - taxableInBracket)

calculateFederalTaxOf(which, amount) ==
    TaxFrom(which,
            IF which = "script" THEN federalTaxBrackets ELSE FEDERAL_TAX_BRACKETS,
            1, amount)

\* The incomes tried: around every bracket limit, and the ends.
BracketLimits == {11000, 44725, 95375, 182050, 231250, 578125}
Incomes == { limit + d : limit \in BracketLimits, d \in -5..5 } \cup {0, 1, 600000}

TaxInit ==
    /\ debts0 = << >>
    /\ extraPayment = 0
    /\ FreshCaller

\* A call calculateFederalTax(income) of the implementation impl.
calculateFederalTax ==
    /\ TaxStep
    /\ federalTax = -1
    /\ \E amount \in Incomes :
          /\ income' = amount
          /\ federalTax' = calculateFederalTaxOf(impl, amount)

TaxSpec == TaxInit /\ [][calculateFederalTax]_vars

\* The documented brackets: 10% on the first 11,000, 12% on 11,001 to
\* 44,725, and so on; the part of an income lying in the bracket that ends at
\* limit and starts after below.
PartIn(amount, below, limit) == Min(amount, limit) - Min(amount, below)
DocumentedTax(amount) ==
      10 * PartIn(amount, 0, 11000)
    + 12 * PartIn(amount, 11000, 44725)
    + 22 * PartIn(amount, 44725, 95375)
    + 24 * PartIn(amount, 95375, 182050)
    + 32 * PartIn(amount, 182050, 231250)
    + 35 * PartIn(amount, 231250, 578125)
    + 37 * PartIn(amount, 578125, Infinity)

\* C23: for every whole-dollar income, calculateFederalTax returns the sum
\* over the documented brackets of rate times the part of the income lying
\* in the bracket.
C23_TaxIsSumOverBrackets ==
    federalTax # -1 => federalTax = DocumentedTax(income)

\* ---------------------------------------------------------------- annual income calculator
\* The value of a text field: << >> when blank, <<n>> when it holds the number n.
Blank == << >>
Typed(n) == <<n>>

\* toNumber(value): parseFloat, 0 when the field holds no number.
toNumber(value) == IF value = Blank THEN 0 ELSE value[1]

\* What is typed into the form.
PayPeriods == {"year", "week", "hour"}
PayRates == {Blank, Typed(20), Typed(-5)}
HoursValues == {Blank, Typed(40)}
WeeksValues == {Blank, Typed(50)}
BonusValues == {Blank, Typed(1000)}
PayForms ==
    [period : PayPeriods, payRate : PayRates, hoursPerWeek : HoursValues,
     weeksPerYear : WeeksValues, bonus : BonusValues]

\* validateInputs: the message, "" when the fields are valid.
validateInputs(form) ==
    IF form.payRate = Blank \/ toNumber(form.payRate) < 0
    THEN "Enter a valid pay amount (>= 0)."
    ELSE IF form.period = "hour"
            /\ (form.hoursPerWeek = Blank \/ toNumber(form.hoursPerWeek) <= 0)
    THEN "Enter hours per week (> 0) for hourly pay."
    ELSE IF form.period = "hour"
            /\ (form.weeksPerYear = Blank \/ toNumber(form.weeksPerYear) <= 0)
    THEN "Enter weeks per year (> 0) for hourly pay."
    ELSE IF form.period = "hour" /\ toNumber(form.hoursPerWeek) > 168
    THEN "Hours per week cannot exceed 168."
    ELSE IF form.period = "hour" /\ toNumber(form.weeksPerYear) > 366
    THEN "Weeks per year cannot exceed 366."
    ELSE IF form.period = "week" /\ form.weeksPerYear # Blank
            /\ toNumber(form.weeksPerYear) > 366
    THEN "Weeks per year cannot exceed 366."
    ELSE IF form.bonus # Blank /\ toNumber(form.bonus) < 0
    THEN "Bonus cannot be negative."
    ELSE ""

\* The weeks used when the field is blank.
DefaultWeeks == 52

calculateYearlyIncome(form) ==
    LET base == toNumber(form.payRate)
        extra == toNumber(form.bonus)
        weeks == IF form.weeksPerYear # Blank THEN toNumber(form.weeksPerYear)
                 ELSE DefaultWeeks
    IN  IF form.period = "year" THEN base + extra
        ELSE IF form.period = "week" THEN base * weeks + extra
        ELSE base * toNumber(form.hoursPerWeek) * weeks + extra

\* Calculate: the submit handler of the form, for any content of the fields.
payFormSubmit ==
    /\ IncomePageStep
    /\ \E form \in PayForms :
          LET message == validateInputs(form)
          IN  /\ payForm' = form
              /\ payPage' = IF message # ""
                            THEN [payPage EXCEPT !.error = message, !.hidden = TRUE,
                                                 !.last = "submit"]
                            ELSE [error |-> "", hidden |-> FALSE,
                                  perYear |-> calculateYearlyIncome(form),
                                  last |-> "submit"]

\* Reset: the click handler of reset-btn.
payFormReset ==
    /\ IncomePageStep
    /\ payPage' = [payPage EXCEPT !.error = "", !.hidden = TRUE, !.last = "reset"]
    /\ UNCHANGED payForm

IncomePageInit ==
    /\ impl = "script"
    /\ debts0 = << >>
    /\ extraPayment = 0
    /\ FreshCaller

IncomePageNext ==
    \/ payFormSubmit
    \/ payFormReset

IncomePageSpec == IncomePageInit /\ [][IncomePageNext]_vars

\* The form holds a pay amount and a bonus the validation accepts.
ValidPayAndBonus ==
    /\ payForm.payRate # Blank
    /\ toNumber(payForm.payRate) >= 0
    /\ payForm.bonus = Blank \/ toNumber(payForm.bonus) >= 0

\* C24: a submit with the weeks/year field blank uses 52 weeks; for hourly
\* pay with a valid rate and valid hours/week it shows
\* pay * hours/week * 52 + bonus and no error.
C24_BlankWeeksMeans52 ==
    ( /\ payPage.last = "submit"
      /\ payForm.weeksPerYear = Blank
      /\ ValidPayAndBonus )
    => /\ payForm.period = "week" =>
             /\ ~payPage.hidden
             /\ payPage.perYear = toNumber(payForm.payRate) * 52 + toNumber(payForm.bonus)
       /\ ( /\ payForm.period = "hour"
            /\ payForm.hoursPerWeek # Blank
            /\ toNumber(payForm.hoursPerWeek) > 0
            /\ toNumber(payForm.hoursPerWeek) <= 168 ) =>
             /\ payPage.error = ""
             /\ ~payPage.hidden
             /\ payPage.perYear = toNumber(payForm.payRate) * toNumber(payForm.hoursPerWeek) * 52
                                  + toNumber(payForm.bonus)

\* ---------------------------------------------------------------- goals
\* The amounts typed into the prompt of editGoal.
EditAmounts == {2500, 5000, 7500}

\* goals.filter(goal => goal.id !== goalId), and the list with the current
\* amount of the goal goalId set.
WithoutGoal(goals, goalId) == SelectSeq(goals, LAMBDA goal : goal.id # goalId)
WithCurrentAmount(goals, goalId, amount) ==
    [i \in DOMAIN goals |->
        IF goals[i].id = goalId THEN [goals[i] EXCEPT !.currentAmount = amount]
        ELSE goals[i]]

\* The Delete and Edit buttons displayGoals rendered: one pair per goal shown.
ShownGoalIds == { goalsList[i].id : i \in DOMAIN goalsList }

\* Delete, confirmed: deleteGoal(goalId).
deleteGoal ==
    /\ StoreStep("deleteGoal")
    /\ \E goalId \in ShownGoalIds :
          LET goals == loadArray(localStorage, "goals")
              updatedGoals == WithoutGoal(goals, goalId)
              stored == setItem(localStorage, "goals", updatedGoals)
          IN  /\ localStorage' = stored
              /\ goalsList' = loadArray(stored, "goals")
              /\ dashboard' = updateDashboard(stored)
              /\ appliedGoals' = WithoutGoal(appliedGoals, goalId)
    /\ UNCHANGED <<FinancialDataStore, debtResults, exportFile, storeAtExport, goalClock>>

\* Edit, with an amount typed into the prompt: editGoal(goalId).
editGoal ==
    /\ StoreStep("editGoal")
    /\ \E goalId \in ShownGoalIds, newAmount \in EditAmounts :
          LET goals == loadArray(localStorage, "goals")
              edited == WithCurrentAmount(goals, goalId, newAmount)
          IN  IF \E i \in DOMAIN goals : goals[i].id = goalId
              THEN LET stored == setItem(localStorage, "goals", edited)
                   IN  /\ localStorage' = stored
                       /\ goalsList' = loadArray(stored, "goals")
                       /\ dashboard' = updateDashboard(stored)
                       /\ appliedGoals' = WithCurrentAmount(appliedGoals, goalId, newAmount)
              ELSE UNCHANGED <<localStorage, goalsList, dashboard, appliedGoals>>
    /\ UNCHANGED <<FinancialDataStore, debtResults, exportFile, storeAtExport, goalClock>>

\* Delete not confirmed, or the prompt of Edit cancelled.
goalDialogCancelled ==
    /\ ShownGoalIds # {}
    /\ NoGoalStep(lastOp)
    /\ UNCHANGED <<FinancialDataStore, localStorage, dashboard, debtResults,
                   exportFile, storeAtExport>>

GoalsNext ==
    \/ onGoalsSubmit
    \/ deleteGoal
    \/ editGoal
    \/ goalDialogCancelled

GoalsSpec == StoreInit /\ [][GoalsNext]_vars

\* C25: the goals stored under 'goals' and the goals displayed are the
\* goals obtained by applying the add, edit and delete operations so far in
\* order.
C25_GoalsAreOperationsApplied ==
    /\ loadArray(localStorage, "goals") = appliedGoals
    /\ goalsList = appliedGoals

\* ---------------------------------------------------------------- bets
\* What a hand has added to the balance left by the deduction of its bet.
Credited == gameState.playerBalance - (balanceBeforeDeal - dealtValues[3])

\* C26: between dealCards and the resolution of the hand currentBet is the
\* bet that was deducted at the deal, and the payout credited for a resolved
\* hand is computed from that bet (nothing, the bet, twice the bet, or
\* floor(2.5 * bet) for a blackjack).
C26_PayoutFromBetOfDeal ==
    /\ gameState.gamePhase \in {"playing", "dealer"} =>
          gameState.currentBet = dealtValues[3]
    /\ gameState.gamePhase = "finished" =>
          Credited \in {0, dealtValues[3], 2 * dealtValues[3],
                        BlackjackWinnings(dealtValues[3])}

MaxRounds == 4

\* The pending callbacks that turn the button green.
GoTimers == { t \in reactionTimers : t.kind = "go" }

\* Start Game: startGame().
startGame ==
    /\ ReactionStep
    /\ IF reactionState \in {"idle", "finished"}
       THEN /\ rounds < MaxRounds
            /\ rounds' = rounds + 1
            /\ reactionState' = "waiting"
            /\ changedBy' = rounds + 1
            /\ timeoutId' = nextTimeout
            /\ reactionTimers' = reactionTimers \cup
                  {[id |-> nextTimeout, kind |-> "go", round |-> rounds + 1]}
            /\ nextTimeout' = nextTimeout + 1
       ELSE UNCHANGED reactionVars

\* A click on the reaction button: handleButtonClick().
handleButtonClick ==
    /\ ReactionStep
    /\ IF reactionState = "waiting"
       THEN /\ reactionState' = "finished"
            /\ changedBy' = rounds
            /\ timeoutId' = 0
            /\ reactionTimers' =
                  { t \in reactionTimers : timeoutId = 0 \/ t.id # timeoutId }
                  \cup {[id |-> nextTimeout, kind |-> "reset", round |-> rounds]}
            /\ nextTimeout' = nextTimeout + 1
            /\ UNCHANGED rounds
       ELSE IF reactionState = "ready"
       THEN /\ reactionState' = "finished"
            /\ changedBy' = rounds
            /\ reactionTimers' = reactionTimers \cup
                  {[id |-> nextTimeout, kind |-> "reset", round |-> rounds]}
            /\ nextTimeout' = nextTimeout + 1
            /\ UNCHANGED <<timeoutId, rounds>>
       ELSE UNCHANGED reactionVars

\* The callback of startGame's setTimeout: green, if still waiting.
goTimeout ==
    /\ ReactionStep
    /\ \E t \in GoTimers :
          /\ reactionTimers' = reactionTimers \ {t}
          /\ IF reactionState = "waiting"
             THEN /\ reactionState' = "ready"
                  /\ changedBy' = t.round
             ELSE UNCHANGED <<reactionState, changedBy>>
    /\ UNCHANGED <<timeoutId, nextTimeout, rounds>>

\* The callback set after a click: resetToIdle().
resetToIdle ==
    /\ ReactionStep
    /\ \E t \in reactionTimers :
          /\ t.kind = "reset"
          /\ reactionTimers' = reactionTimers \ {t}
          /\ reactionState' = "idle"
          /\ changedBy' = t.round
    /\ UNCHANGED <<timeoutId, nextTimeout, rounds>>

ReactionInit ==
    /\ impl = "script"
    /\ debts0 = << >>
    /\ extraPayment = 0
    /\ FreshCaller

ReactionNext ==
    \/ startGame
    \/ handleButtonClick
    \/ goTimeout
    \/ resetToIdle

ReactionSpec == ReactionInit /\ [][ReactionNext]_vars

\* C28: the state of a round is set only by that round's own clicks and
\* callbacks, never by a callback scheduled during an earlier round; while
\* the game waits, the pending go-timer is the one of this round, and at
\* most one go-timer is pending at any time.
C28_RoundsAreIsolated ==
    /\ changedBy = rounds
    /\ Cardinality(GoTimers) <= 1
    /\ reactionState = "waiting" =>
          GoTimers = {[id |-> timeoutId, kind |-> "go", round |-> rounds]}

\* ---------------------------------------------------------------- market data
\* Calls of getStockData in one run, and the symbols asked for.
MaxStockCalls == 3
Symbols == {"SPY", "QQQ"}

\* this.config.retryAttempts
retryAttempts == 3

\* `stock_${symbol}`
cacheKey(symbol) == "stock_" \o symbol

\* this.requestQueue.has(cacheKey)
QueueHasNothing(queue, key) == FALSE
QueueHas(queue, key) == key \in DOMAIN queue

\* isCacheValid(key): an entry younger than cacheDuration.
isCacheValid(cache, key) == key \in DOMAIN cache /\ cache[key] = "fresh"

\* The chains that have not settled: fetching, or waiting to retry.
InFlight(symbol) ==
    { i \in DOMAIN fetches :
        fetches[i].symbol = symbol /\ fetches[i].status \in {"fetching", "delay"} }

\* getStockData(symbol), up to its await.
getStockData ==
    /\ MarketStep
    /\ stockCalls < MaxStockCalls
    /\ stockCalls' = stockCalls + 1
    /\ \E symbol \in Symbols :
          LET key == cacheKey(symbol)
              request == Len(fetches) + 1
          IN  IF isCacheValid(marketCache, key)
              THEN /\ lastReturn' = [kind |-> "cached", symbol |-> symbol, request |-> 0]
                   /\ UNCHANGED <<requestQueue, fetches>>
              ELSE IF QueueHas(requestQueue, key)
              THEN /\ lastReturn' = [kind |-> "joined", symbol |-> symbol,
                                     request |-> requestQueue[key]]
                   /\ UNCHANGED <<requestQueue, fetches>>
              ELSE /\ fetches' = Append(fetches, [symbol |-> symbol, attempts |-> 0,
                                                  status |-> "fetching", data |-> "none"])
                   /\ requestQueue' = [k \in DOMAIN requestQueue \cup {key} |->
                                          IF k = key THEN request ELSE requestQueue[k]]
                   /\ lastReturn' = [kind |-> "new", symbol |-> symbol, request |-> request]
    /\ UNCHANGED marketCache

\* fetch answers and the answer parses: the chain resolves with the parsed
\* data, or with null when the answer holds no price.
fetchResolves ==
    /\ MarketStep
    /\ \E i \in DOMAIN fetches, data \in {"quote", "null"} :
          /\ fetches[i].status = "fetching"
          /\ fetches' = [fetches EXCEPT ![i].status = "resolved", ![i].data = data]
    /\ UNCHANGED <<requestQueue, marketCache, stockCalls, lastReturn>>

\* fetch fails, times out or answers with an error status: the catch block
\* waits to retry, or throws after the last attempt.
fetchFails ==
    /\ MarketStep
    /\ \E i \in DOMAIN fetches :
          /\ fetches[i].status = "fetching"
          /\ fetches' = [fetches EXCEPT ![i].status =
                            IF fetches[i].attempts < retryAttempts THEN "delay"
                            ELSE "rejected"]
    /\ UNCHANGED <<requestQueue, marketCache, stockCalls, lastReturn>>

\* The delay is over: fetchStockDataWithRetry(symbol, attempts + 1).
retry ==
    /\ MarketStep
    /\ \E i \in DOMAIN fetches :
          /\ fetches[i].status = "delay"
          /\ fetches' = [fetches EXCEPT ![i].status = "fetching",
                                        ![i].attempts = @ + 1]
    /\ UNCHANGED <<requestQueue, marketCache, stockCalls, lastReturn>>

\* getStockData after its await: updateCache on success, and the finally block.
requestSettled ==
    /\ MarketStep
    /\ \E i \in DOMAIN fetches :
          LET key == cacheKey(fetches[i].symbol)
          IN  /\ fetches[i].status \in {"resolved", "rejected"}
              /\ marketCache' =
                    IF fetches[i].status = "resolved" /\ fetches[i].data # "null"
                    THEN [k \in DOMAIN marketCache \cup {key} |->
                             IF k = key THEN "fresh" ELSE marketCache[k]]
                    ELSE marketCache
              /\ requestQueue' = [k \in DOMAIN requestQueue \ {key} |-> requestQueue[k]]
              /\ fetches' = [fetches EXCEPT ![i].status =
                                IF fetches[i].status = "resolved" THEN "done"
                                ELSE "failed"]
    /\ UNCHANGED <<stockCalls, lastReturn>>

\* cacheDuration passes for an entry.
cacheExpires ==
    /\ MarketStep
    /\ \E key \in DOMAIN marketCache :
          /\ marketCache[key] = "fresh"
          /\ marketCache' = [marketCache EXCEPT ![key] = "expired"]
    /\ UNCHANGED <<requestQueue, fetches, stockCalls, lastReturn>>

\* clearCache(), and clearExpiredCache() once every entry has expired.
clearCache ==
    /\ MarketStep
    /\ marketCache' = [k \in {} |-> ""]
    /\ UNCHANGED <<requestQueue, fetches, stockCalls, lastReturn>>

MarketInit ==
    /\ impl = "script"
    /\ debts0 = << >>
    /\ extraPayment = 0
    /\ FreshCaller

MarketNext ==
    \/ getStockData
    \/ fetchResolves
    \/ fetchFails
    \/ retry
    \/ requestSettled
    \/ cacheExpires
    \/ clearCache

MarketSpec == MarketInit /\ [][MarketNext]_vars

\* C29: for a symbol at most one fetch chain is in flight, and it is the
\* request in requestQueue; a call that arrives while a request for the
\* symbol is pending gets that request instead of a new chain; the
\* requestQueue entry is gone once the request has settled and getStockData
\* has resumed, after a success and after a failure of the last retry.
C29_OneChainPerSymbol ==
    /\ \A symbol \in Symbols :
          /\ Cardinality(InFlight(symbol)) <= 1
          /\ \A i \in InFlight(symbol) :
                /\ QueueHas(requestQueue, cacheKey(symbol))
                /\ requestQueue[cacheKey(symbol)] = i
    /\ lastReturn.kind = "joined" =>
          /\ lastReturn.request \in DOMAIN fetches
          /\ fetches[lastReturn.request].symbol = lastReturn.symbol
    /\ \A key \in DOMAIN requestQueue :
          /\ requestQueue[key] \in DOMAIN fetches
          /\ fetches[requestQueue[key]].status \notin {"done", "failed"}
    /\ \A i \in DOMAIN fetches :
          fetches[i].status \in {"done", "failed"} =>
             ( ~QueueHas(requestQueue, cacheKey(fetches[i].symbol))
               \/ requestQueue[cacheKey(fetches[i].symbol)] # i )

\* A second call joined the pending request for its symbol, the request
\* failed after the last retry, and its requestQueue entry is gone.
C29_Witness ==
    /\ lastReturn.kind = "joined"
    /\ lastReturn.request \in DOMAIN fetches
    /\ fetches[lastReturn.request].status = "failed"
    /\ fetches[lastReturn.request].attempts = retryAttempts
    /\ ~QueueHas(requestQueue, cacheKey(lastReturn.symbol))

\* ---------------------------------------------------------------- doubles
\* The simulators compute with JavaScript Numbers. A Number is held here
\* exactly: <<hi, lo>> stands for the double (hi * 2^30 + lo) * 2^-47. Every
\* double from 32 up to 8192, every whole number of dollars below that, and
\* every sum or difference of such doubles that is not negative, is of this
\* form, so that + and - are computed as IEEE-754 computes them: the exact
\* result, rounded to a 53 bit significand, ties to even.
Limb == Pow(2, 30)
SignificandBits == 53
Zero == <<0, 0>>

\* parseFloat of a whole number of dollars, and of "47.87" and "177.13".
Dollars(n) == <<n * Pow(2, 17), 0>>
Number47_87 == <<6274416, 687194767>>
Number177_13 == <<23216783, 386547056>>

Less(a, b) == a[1] < b[1] \/ (a[1] = b[1] /\ a[2] < b[2])
MathMin(a, b) == IF Less(b, a) THEN b ELSE a

\* The bits the exact value v has beyond a 53 bit significand.
ExcessBits(v) ==
    LET top == v[1] \div Pow(2, SignificandBits - 30)
    IN  CHOOSE s \in 0..8 : top < Pow(2, s) /\ (s = 0 \/ top >= Pow(2, s - 1))

\* Round to nearest, ties to even.
RoundToDouble(v) ==
    LET s == ExcessBits(v)
        unit == Pow(2, s)
        rest == v[2] % unit
        down == v[2] - rest
        odd == (down \div unit) % 2 = 1
        up == s > 0 /\ (2 * rest > unit \/ (2 * rest = unit /\ odd))
        lo == IF up THEN down + unit ELSE down
    IN  IF lo = Limb THEN <<v[1] + 1, 0>> ELSE <<v[1], lo>>

\* a + b
Plus(a, b) ==
    LET lo == a[2] + b[2]
    IN  RoundToDouble(<<a[1] + b[1] + (lo \div Limb), lo % Limb>>)

\* a - b, for a >= b
Minus(a, b) ==
    RoundToDouble(IF a[2] >= b[2] THEN <<a[1] - b[1], a[2] - b[2]>>
                  ELSE <<a[1] - b[1] - 1, (a[2] - b[2]) + Limb>>)

\* Math.max(0, a - b)
MathMaxZeroMinus(a, b) == IF Less(a, b) THEN Zero ELSE Minus(a, b)

\* ---------------------------------------------------------------- both simulators
\* The debts tried carry no interest: (balance * (0 / 100)) / 12 is 0, and
\* every other operation of a month is a sum, a difference or a comparison.
\* minPayment is the field the calculators module reads; the legacy code
\* reads the same amount from the field payment.
NoInterest == Zero
ParityBalances == {Dollars(4500), Dollars(900)}
ParityPayments == {Number47_87, Dollars(50)}
ParityExtras == {Zero, Number177_13}
ParityDebt(name, balance, minPayment) ==
    [name |-> name, balance |-> balance, rate |-> 0, minPayment |-> minPayment]
ParityLists ==
    { <<ParityDebt("a", b, p)>> : b \in ParityBalances, p \in ParityPayments }
    \cup { <<ParityDebt("a", b, p), ParityDebt("b", Dollars(900), Dollars(50))>> :
              b \in ParityBalances, p \in ParityPayments }

\* [...debts].sort(...): by rate, which leaves these debts in place, or by balance.
SortedFor(strategy, list) ==
    IF strategy = "snowball" /\ Len(list) = 2 /\ Less(list[2].balance, list[1].balance)
    THEN <<list[2], list[1]>>
    ELSE list

OwedDebts(list) == SelectSeq(list, LAMBDA d : Less(Zero, d.balance))
PaidOffIn(list, m) ==
    LET paid == SelectSeq(list, LAMBDA d : ~Less(Zero, d.balance))
    IN  [i \in DOMAIN paid |-> [month |-> m, debtName |-> paid[i].name]]

\* One pass of the while loop of calculatePayoffPlan in script.js.
LegacyMinimums(list) ==
    [i \in DOMAIN list |->
        LET principalPayment == MathMin(Minus(list[i].minPayment, NoInterest),
                                        list[i].balance)
        IN  [list[i] EXCEPT !.balance = Minus(@, principalPayment)]]
LegacyExtra(list, extra) ==
    IF Less(Zero, extra) /\ Len(list) > 0
    THEN [list EXCEPT ![1].balance = Minus(@, MathMin(extra, list[1].balance))]
    ELSE list
LegacyLoop(run, extra) ==
    LET m == run.month + 1
        paid == LegacyExtra(LegacyMinimums(run.remainingDebts), extra)
    IN  [remainingDebts |-> OwedDebts(paid), month |-> m,
         timeline |-> run.timeline \o PaidOffIn(paid, m), returned |-> FALSE]

\* One pass of the while loop of FinancialCalculators.calculatePayoffPlan.
ModularPayments(list, extra) ==
    [i \in DOMAIN list |->
        LET monthlyPayment == IF i = 1 THEN Plus(list[i].minPayment, extra)
                              ELSE list[i].minPayment
            principalPayment == Minus(monthlyPayment, NoInterest)
        IN  [list[i] EXCEPT !.balance = MathMaxZeroMinus(@, principalPayment)]]
ModularLoop(run, extra) ==
    LET m == run.month + 1
        paid == ModularPayments(run.remainingDebts, extra)
    IN  [remainingDebts |-> OwedDebts(paid), month |-> m,
         timeline |-> run.timeline \o PaidOffIn(paid, m), returned |-> FALSE]

Looping(run) == Len(run.remainingDebts) > 0 /\ run.month < MaxMonths

\* calculateAvalanche or calculateSnowball of both modules, called with the
\* same debts and the same extra payment.
callBothSimulators ==
    /\ ParityStep
    /\ planArgs.strategy = "none"
    /\ \E strategy \in {"avalanche", "snowball"}, list \in ParityLists,
          extra \in ParityExtras :
          LET sorted == SortedFor(strategy, list)
              start == [remainingDebts |-> sorted, month |-> 0,
                        timeline |-> << >>, returned |-> FALSE]
          IN  /\ planArgs' = [strategy |-> strategy, sortedDebts |-> sorted,
                              extraPayment |-> extra]
              /\ legacyRun' = start
              /\ modularRun' = start

legacyMonth ==
    /\ ParityStep
    /\ planArgs.strategy # "none"
    /\ ~legacyRun.returned
    /\ legacyRun' = IF Looping(legacyRun)
                    THEN LegacyLoop(legacyRun, planArgs.extraPayment)
                    ELSE [legacyRun EXCEPT !.returned = TRUE]
    /\ UNCHANGED <<planArgs, modularRun>>

modularMonth ==
    /\ ParityStep
    /\ planArgs.strategy # "none"
    /\ ~modularRun.returned
    /\ modularRun' = IF Looping(modularRun)
                     THEN ModularLoop(modularRun, planArgs.extraPayment)
                     ELSE [modularRun EXCEPT !.returned = TRUE]
    /\ UNCHANGED <<planArgs, legacyRun>>

ParityInit ==
    /\ impl = "script"
    /\ debts0 = << >>
    /\ extraPayment = 0
    /\ FreshCaller

ParityNext ==
    \/ callBothSimulators
    \/ legacyMonth
    \/ modularMonth

ParitySpec == ParityInit /\ [][ParityNext]_vars

\* C30: called with the same debts, the same extra payment and the same
\* strategy, the calculatePayoffPlan of script.js and the one of the
\* calculators module return the same totalMonths and the same payoff month
\* for every debt in timeline (totalInterest is 0 in both for these debts).
C30_SimulatorsAgree ==
    (legacyRun.returned /\ modularRun.returned) =>
        /\ legacyRun.month = modularRun.month
        /\ legacyRun.timeline = modularRun.timeline

====
